---- MODULE Spec2Model ----
(***************************************************************************)
(* A model of the Wikipedia Current Events extractor of                    *)
(* src/projects/news_tracker/apis/wikipedia_api.py:                        *)
(* WikipediaCurrentEventsAPI._parse_html and its helpers, and get_month;   *)
(* of get_months, and of WikipediaPageviewsAPI.get_day and backfill, of    *)
(* the same file; of BaseGovernmentAPI._make_request of                    *)
(* src/data/apis/base_api.py; of BLSAPI.get_data of                        *)
(* src/projects/gov_data/apis/bls_api.py; and of get_bls_data of           *)
(* src/data/bureau_of_labor_statistics/api_bls.py.  Each has its own       *)
(* variables and its own specification, the others standing idle.          *)
(*                                                                         *)
(* A string is a sequence of tokens (TLA+ strings); its length is the sum  *)
(* of the lengths of its tokens.  White space is a token of its own, and   *)
(* so is a parenthesis, so that str.strip() and str.strip("()") act on     *)
(* whole tokens.  An HTML node is a record: a tag (or "#text" for a        *)
(* NavigableString), its class list, its href and title attributes (the    *)
(* empty string when the attribute is absent, as a.get(attr, "") reads     *)
(* it), its text (text nodes only) and its children.                       *)
(***************************************************************************)
EXTENDS Integers, Sequences, FiniteSets, TLC

VARIABLES
    html,              \* the page _fetch_html returns for the request
    year, month,       \* the request's parameters
    pc,                \* where get_month / _parse_html stands
    day_divs,          \* _parse_html: the day blocks selected
    day_i,             \* index in day_divs of the block being parsed
    event_date,        \* date of the block being parsed
    children,          \* content.children of the block being parsed
    elem_i,            \* index in children of the next element
    current_category,  \* the category cursor
    rows,              \* the records accumulated
    origin,            \* history: for each record, where its leaf stands
    result,            \* what get_month returns
    warned,            \* whether get_month printed its warning
    m_pc,              \* where get_months stands
    m_args,            \* get_months: start_year, start_month, end_year, end_month
    ym,                \* get_months: the loop's (y, m)
    dfs,               \* get_months: the tables collected
    m_calls,           \* history: the get_month calls made, with their outcome
    m_warnings,        \* get_months: the months a warning was printed for
    m_df,              \* what get_months returns
    d_pc,              \* where get_day stands
    d_arg,             \* get_day: the date d
    d_resp,            \* get_day: what session.get gave
    d_out,             \* what get_day returns: (df, is_missing)
    csv,               \* the file at save_path
    b_pc,              \* where backfill stands
    b_args,            \* backfill: start_date, end_date
    to_fetch,          \* backfill: the dates to fetch
    b_i,               \* backfill: the loop's index in to_fetch
    write_header,      \* backfill: whether the next to_csv writes the header
    missing_count,     \* backfill: the days that had no data
    b_requests,        \* history: the days get_day was called for in the run
    csv_start,         \* history: the file when the run started
    b_df,              \* what backfill returns
    b_runs,            \* history: the runs made on the path
    r_pc,              \* where _make_request stands
    r_args,            \* _make_request: method, data
    attempt,           \* _make_request: the loop's attempt
    r_sent,            \* history: the requests sent, with what each came to
    r_slept,           \* history: the seconds slept
    r_result,          \* what _make_request returns
    gd_pc,             \* where get_data stands
    gd_args,           \* get_data: series_ids, years, and self.api_key
    gd_y,              \* get_data: the loop's y
    gd_chunk,          \* get_data: year_chunk, start_year, end_year
    gd_s,              \* get_data: the loop's s
    gd_sent,           \* history: the requests sent, with what each came to
    gd_df,             \* get_data: the table, which it returns
    gb_pc,             \* where get_bls_data stands
    gb_args,           \* get_bls_data: series_ids, years
    gb_y,              \* get_bls_data: the loop's y
    gb_s,              \* get_bls_data: the loop's s
    gb_sent,           \* history: the requests sent, with what each came to
    gb_df              \* get_bls_data: the table, which it returns

parseVars == <<html, year, month, pc, day_divs, day_i, event_date, children,
               elem_i, current_category, rows, origin, result, warned>>

monthsVars == <<m_pc, m_args, ym, dfs, m_calls, m_warnings, m_df>>

dayVars == <<d_pc, d_arg, d_resp, d_out>>

backfillVars == <<csv, b_pc, b_args, to_fetch, b_i, write_header,
                  missing_count, b_requests, csv_start, b_df, b_runs>>

requestVars == <<r_pc, r_args, attempt, r_sent, r_slept, r_result>>

getDataVars == <<gd_pc, gd_args, gd_y, gd_chunk, gd_s, gd_sent, gd_df>>

blsVars == <<gb_pc, gb_args, gb_y, gb_s, gb_sent, gb_df>>

vars == <<parseVars, monthsVars, dayVars, backfillVars, requestVars,
          getDataVars, blsVars>>

\* What the steps of get_month and _parse_html leave alone.
otherThanParse ==
    <<monthsVars, dayVars, backfillVars, requestVars, getDataVars,
      blsVars>>

\* What the steps of get_months leave alone.
otherThanMonths ==
    <<parseVars, dayVars, backfillVars, requestVars, getDataVars,
      blsVars>>

\* What the steps of get_day leave alone.
otherThanDay ==
    <<parseVars, monthsVars, backfillVars, requestVars, getDataVars,
      blsVars>>

\* What the steps of backfill leave alone.
otherThanBackfill ==
    <<parseVars, monthsVars, dayVars, requestVars, getDataVars,
      blsVars>>

\* What the steps of _make_request leave alone.
otherThanRequest ==
    <<parseVars, monthsVars, dayVars, backfillVars, getDataVars,
      blsVars>>

\* What the steps of get_data leave alone.
otherThanGetData ==
    <<parseVars, monthsVars, dayVars, backfillVars, requestVars, blsVars>>

\* What the steps of get_bls_data leave alone.
otherThanBls ==
    <<parseVars, monthsVars, dayVars, backfillVars, requestVars, getDataVars>>

---------------------------------------------------------------------------
(* Strings                                                                 *)

WhiteSpace == {" ", "\n"}

SetMin(S) == CHOOSE x \in S : \A y \in S : x <= y
SetMax(S) == CHOOSE x \in S : \A y \in S : x >= y

\* str.strip(chars): the tokens of chars removed from both ends.
StripChars(s, chars) ==
    LET keep == {i \in 1..Len(s) : s[i] \notin chars}
    IN  IF keep = {} THEN <<>> ELSE SubSeq(s, SetMin(keep), SetMax(keep))

\* str.strip()
Strip(s) == StripChars(s, WhiteSpace)

\* len(str): the number of characters.
RECURSIVE StrLen(_)
StrLen(s) == IF s = <<>> THEN 0 ELSE Len(Head(s)) + StrLen(Tail(s))

\* str.startswith(prefix)
StartsWith(s, p) == Len(p) <= Len(s) /\ SubSeq(s, 1, Len(p)) = p

\* sep.join(list)
RECURSIVE Join(_, _)
Join(sep, list) ==
    IF list = <<>> THEN <<>>
    ELSE IF Len(list) = 1 THEN list[1]
    ELSE list[1] \o sep \o Join(sep, Tail(list))

---------------------------------------------------------------------------
(* HTML nodes, and the BeautifulSoup calls the parser makes on them        *)

TextNode(s) ==
    [tag |-> "#text", class |-> {}, href |-> <<>>, title |-> <<>>,
     text |-> s, kids |-> <<>>]

Element(tag, class, kids) ==
    [tag |-> tag, class |-> class, href |-> <<>>, title |-> <<>>,
     text |-> <<>>, kids |-> kids]

Anchor(href, class, title, kids) ==
    [tag |-> "a", class |-> class, href |-> href, title |-> title,
     text |-> <<>>, kids |-> kids]

IsTag(n) == n.tag # "#text"

\* tag.descendants: every node below n, in document order.
RECURSIVE Descendants(_)
Descendants(n) ==
    LET F[i \in 0..Len(n.kids)] ==
            IF i = 0 THEN <<>>
            ELSE F[i - 1] \o <<n.kids[i]>> \o Descendants(n.kids[i])
    IN  F[Len(n.kids)]

\* tag.find_all(name)
FindAll(n, name) == SelectSeq(Descendants(n), LAMBDA d : d.tag = name)

\* tag.find_all(name, class_=cls)
FindAllClass(n, name, cls) ==
    SelectSeq(Descendants(n), LAMBDA d : d.tag = name /\ cls \in d.class)

\* tag.find_all(name, recursive=False)
FindAllDirect(n, name) == SelectSeq(n.kids, LAMBDA d : d.tag = name)

\* bool(tag.find(name)): a Tag is truthy whatever it holds.
Has(n, name) == FindAll(n, name) # <<>>

\* tag.get_text(sep, strip=True): the stripped, non-empty strings below n,
\* joined by sep.
StrippedStrings(n) ==
    LET texts == SelectSeq(Descendants(n), LAMBDA d : ~IsTag(d))
        strip == [i \in 1..Len(texts) |-> Strip(texts[i].text)]
    IN  SelectSeq(strip, LAMBDA s : s # <<>>)

GetText(n, sep) == Join(sep, StrippedStrings(n))

---------------------------------------------------------------------------
(* datetime.strptime(text, "%Y-%m-%d").date()                              *)

\* int(token) for the tokens that are numerals; -1 for any other token.
TokenValue(tok) ==
    CASE tok = "2016" -> 2016
      [] tok = "2024" -> 2024
      [] tok \in {"1", "01"} -> 1
      [] tok \in {"2", "02"} -> 2
      [] tok = "12" -> 12
      [] tok = "13" -> 13
      [] tok = "15" -> 15
      [] tok = "30" -> 30
      [] tok = "31" -> 31
      [] OTHER -> -1

IsLeap(y) == (y % 4 = 0 /\ y % 100 # 0) \/ y % 400 = 0

DaysInMonth(y, m) ==
    IF m = 2 THEN (IF IsLeap(y) THEN 29 ELSE 28)
    ELSE IF m \in {4, 6, 9, 11} THEN 30 ELSE 31

\* Whether strptime accepts the text: four digits, one or two, one or two,
\* separated by "-", naming a day of the calendar.
DateIsValid(s) ==
    /\ Len(s) = 5
    /\ s[2] = "-" /\ s[4] = "-"
    /\ Len(s[1]) = 4 /\ TokenValue(s[1]) >= 1
    /\ Len(s[3]) <= 2 /\ TokenValue(s[3]) \in 1..12
    /\ Len(s[5]) <= 2
    /\ TokenValue(s[5]) \in 1..DaysInMonth(TokenValue(s[1]), TokenValue(s[3]))

ParseDate(s) ==
    [year |-> TokenValue(s[1]), month |-> TokenValue(s[3]),
     day |-> TokenValue(s[5])]

NoDate == [year |-> 0, month |-> 0, day |-> 0]

\* pd.to_datetime(date): the timestamp of the day's midnight.
ToDatetime(d) ==
    [year |-> d.year, month |-> d.month, day |-> d.day, hour |-> 0]

---------------------------------------------------------------------------
(* WikipediaCurrentEventsAPI: the helpers of _parse_html                   *)

MinDescriptionLen == 10

skip_prefixes ==
    { <<"/wiki/", "Portal:">>, <<"/wiki/", "Help:">>,
      <<"/wiki/", "Special:">>, <<"/wiki/", "Wikipedia:">>,
      <<"/wiki/", "Talk:">> }

\* ExtractSources, were a link a citation by its href (not a /wiki/ path)
\* instead of by its class.
ExtractSourcesByHref(li) ==
    LET ext   == SelectSeq(FindAll(li, "a"),
                           LAMBDA a : ~StartsWith(a.href, <<"/wiki/">>))
        names == [i \in 1..Len(ext) |->
                     StripChars(GetText(ext[i], <<" ">>), {"(", ")"})]
    IN  SelectSeq(names, LAMBDA name : name # <<>>)

\* _extract_sources(li)
ExtractSources(li) ==
    LET ext   == FindAllClass(li, "a", "external")
        names == [i \in 1..Len(ext) |->
                     StripChars(GetText(ext[i], <<" ">>), {"(", ")"})]
    IN  SelectSeq(names, LAMBDA name : name # <<>>)

\* IsWikiLink, were the Talk: namespace missing from skip_prefixes.
IsWikiLinkKeepsTalk(a) ==
    /\ StartsWith(a.href, <<"/wiki/">>)
    /\ ~ \E p \in skip_prefixes \ {<<"/wiki/", "Talk:">>} : StartsWith(a.href, p)
    /\ "external" \notin a.class
    /\ a.title # <<>>

\* The condition of the comprehension of _extract_wiki_links.
IsWikiLink(a) ==
    /\ StartsWith(a.href, <<"/wiki/">>)
    /\ ~ \E p \in skip_prefixes : StartsWith(a.href, p)
    /\ "external" \notin a.class
    /\ a.title # <<>>

\* _extract_wiki_links(li)
ExtractWikiLinks(li) ==
    LET as == SelectSeq(FindAll(li, "a"), IsWikiLink)
    IN  [i \in 1..Len(as) |-> Strip(as[i].title)]

\* IsSubTopicLink, were links flagged external taken too.
IsSubTopicLinkAnyClass(a) ==
    /\ a.tag = "a"
    /\ StartsWith(a.href, <<"/wiki/">>)
    /\ a.title # <<>>

\* The condition of the sub-topic loop over topic_li.children.
IsSubTopicLink(a) ==
    /\ a.tag = "a"
    /\ StartsWith(a.href, <<"/wiki/">>)
    /\ "external" \notin a.class
    /\ a.title # <<>>

\* sub_topic of a topic entry: the first qualifying immediate child's title.
SubTopic(topic_li) ==
    LET as == SelectSeq(topic_li.kids, IsSubTopicLink)
    IN  IF as = <<>> THEN <<>> ELSE Strip(as[1].title)

\* LeafLis, were the entry always taken for its own leaf.
LeafLisEntryOnly(topic_li) == <<topic_li>>

\* leaf_lis of a topic entry.
LeafLis(topic_li) ==
    IF ~Has(topic_li, "ul") THEN <<topic_li>>
    ELSE SelectSeq(FindAll(topic_li, "li"), LAMBDA li : ~Has(li, "ul"))

\* description of a leaf.
Description(leaf_li) == GetText(leaf_li, <<" ">>)

\* KeepsLeaf, were the comparison "<=".
KeepsLeafOverTen(leaf_li) ==
    ~ (Description(leaf_li) = <<>>
       \/ StrLen(Description(leaf_li)) <= MinDescriptionLen)

\* Whether the leaf's description passes the length filter.
KeepsLeaf(leaf_li) ==
    ~ (Description(leaf_li) = <<>>
       \/ StrLen(Description(leaf_li)) < MinDescriptionLen)

\* The dict appended to rows for a leaf.
MakeRow(date, y, m, category, sub_topic, leaf_li) ==
    [date        |-> date,
     year        |-> y,
     month       |-> m,
     category    |-> category,
     sub_topic   |-> sub_topic,
     description |-> Description(leaf_li),
     wiki_links  |-> Join(<<"|">>, ExtractWikiLinks(leaf_li)),
     sources     |-> Join(<<"|">>, ExtractSources(leaf_li))]

\* The leaves of a category list in the order the loops visit them, each
\* with the index of its entry among the list's direct li children and its
\* index among the entry's leaf_lis.
RECURSIVE Flatten(_)
Flatten(ss) == IF ss = <<>> THEN <<>> ELSE Head(ss) \o Flatten(Tail(ss))

UlLeaves(element) ==
    LET entries == FindAllDirect(element, "li")
    IN  Flatten([k \in 1..Len(entries) |->
            [j \in 1..Len(LeafLis(entries[k])) |->
                [entry |-> k, leaf |-> j, topic_li |-> entries[k],
                 leaf_li |-> LeafLis(entries[k])[j]]]])

\* The leaves of a category list that yield a record.
UlKept(element) == SelectSeq(UlLeaves(element), LAMBDA l : KeepsLeaf(l.leaf_li))

\* The records one category list appends, lines 158-189.
UlRows(element, date, y, m, category) ==
    LET kept == UlKept(element)
    IN  [i \in 1..Len(kept) |->
            MakeRow(date, y, m, category, SubTopic(kept[i].topic_li),
                    kept[i].leaf_li)]

---------------------------------------------------------------------------
(* _parse_html, lines 114-191, one action per branch of its loops, and     *)
(* get_month, lines 208-216                                                *)

\* Python's None and a str, told apart: "" and None are both falsy.
None == [isNone |-> TRUE, val |-> <<>>]
Str(s) == [isNone |-> FALSE, val |-> s]
Truthy(c) == ~c.isNone /\ c.val # <<>>

\* SelectDayDivs, were the class filter missing.
SelectDayDivsAnyDiv(soup) == FindAll(soup, "div")

\* SelectDayDivs, were the legacy blocks added to the primary ones.
SelectDayDivsBoth(soup) ==
    FindAllClass(soup, "div", "current-events") \o
    FindAllClass(soup, "div", "current-events-main")

\* Lines 118-120: the day blocks of the page.
SelectDayDivs(soup) ==
    IF FindAllClass(soup, "div", "current-events") # <<>>
    THEN FindAllClass(soup, "div", "current-events")
    ELSE FindAllClass(soup, "div", "current-events-main")

\* Line 124: day_div.find("span", class_="bday"), as the list of the matches.
DateSpans(day_div) == FindAllClass(day_div, "span", "bday")

\* Line 128: the text handed to strptime.
DateText(day_div) == GetText(DateSpans(day_div)[1], <<>>)

\* Line 132: day_div.find("div", class_="current-events-content"), likewise.
Contents(day_div) == FindAllClass(day_div, "div", "current-events-content")

\* Line 144: the legacy heading element.
IsHeadingDiv(element) ==
    element.tag = "div" /\ "current-events-content-heading" \in element.class

\* ParagraphCategory, were every paragraph taken for a heading.
ParagraphCategoryAlways(category, element) ==
    Str(GetText(element, <<>>))

\* Lines 148-151: the cursor after a paragraph.
ParagraphCategory(category, element) ==
    IF Has(element, "b") THEN Str(GetText(element, <<>>)) ELSE category

\* _fetch_html returns the page.
FetchHtml ==
    /\ pc = "get_month"
    /\ pc' = "_parse_html"
    /\ UNCHANGED <<html, year, month, day_divs, day_i, event_date, children,
                   elem_i, current_category, rows, origin, result, warned>>
    /\ UNCHANGED otherThanParse

\* _fetch_html raises (transport failure, HTTP status, API error payload):
\* get_month lets the exception through.
FetchHtmlRaises ==
    /\ pc = "get_month"
    /\ pc' = "raised"
    /\ UNCHANGED <<html, year, month, day_divs, day_i, event_date, children,
                   elem_i, current_category, rows, origin, result, warned>>
    /\ UNCHANGED otherThanParse

\* Lines 114-120.
FindDayDivs ==
    /\ pc = "_parse_html"
    /\ day_divs' = SelectDayDivs(html)
    /\ day_i' = 1
    /\ rows' = <<>>
    /\ origin' = <<>>
    /\ pc' = "day"
    /\ UNCHANGED <<html, year, month, event_date, children, elem_i,
                   current_category, result, warned>>
    /\ UNCHANGED otherThanParse

\* Lines 124-126: no date marker.
DayNoDateSpan ==
    /\ pc = "day" /\ day_i <= Len(day_divs)
    /\ DateSpans(day_divs[day_i]) = <<>>
    /\ day_i' = day_i + 1
    /\ UNCHANGED <<html, year, month, pc, day_divs, event_date, children,
                   elem_i, current_category, rows, origin, result, warned>>
    /\ UNCHANGED otherThanParse

\* DayBadDate, were the ValueError to end the loop over the day blocks.
DayBadDateEndsLoop ==
    /\ pc = "day" /\ day_i <= Len(day_divs)
    /\ DateSpans(day_divs[day_i]) # <<>>
    /\ ~DateIsValid(DateText(day_divs[day_i]))
    /\ day_i' = Len(day_divs) + 1
    /\ UNCHANGED <<html, year, month, pc, day_divs, event_date, children,
                   elem_i, current_category, rows, origin, result, warned>>
    /\ UNCHANGED otherThanParse

\* Lines 127-130: strptime raises ValueError.
DayBadDate ==
    /\ pc = "day" /\ day_i <= Len(day_divs)
    /\ DateSpans(day_divs[day_i]) # <<>>
    /\ ~DateIsValid(DateText(day_divs[day_i]))
    /\ day_i' = day_i + 1
    /\ UNCHANGED <<html, year, month, pc, day_divs, event_date, children,
                   elem_i, current_category, rows, origin, result, warned>>
    /\ UNCHANGED otherThanParse

\* Lines 132-134: a dated block without a content div.
DayNoContent ==
    /\ pc = "day" /\ day_i <= Len(day_divs)
    /\ DateSpans(day_divs[day_i]) # <<>>
    /\ DateIsValid(DateText(day_divs[day_i]))
    /\ Contents(day_divs[day_i]) = <<>>
    /\ event_date' = ParseDate(DateText(day_divs[day_i]))
    /\ day_i' = day_i + 1
    /\ UNCHANGED <<html, year, month, pc, day_divs, children, elem_i,
                   current_category, rows, origin, result, warned>>
    /\ UNCHANGED otherThanParse

\* DayEnter, were the cursor of the previous block kept.
DayEnterKeepsCategory ==
    /\ pc = "day" /\ day_i <= Len(day_divs)
    /\ DateSpans(day_divs[day_i]) # <<>>
    /\ DateIsValid(DateText(day_divs[day_i]))
    /\ Contents(day_divs[day_i]) # <<>>
    /\ event_date' = ParseDate(DateText(day_divs[day_i]))
    /\ children' = Contents(day_divs[day_i])[1].kids
    /\ elem_i' = 1
    /\ pc' = "element"
    /\ UNCHANGED <<html, year, month, day_divs, day_i, current_category, rows,
                   origin, result, warned>>
    /\ UNCHANGED otherThanParse

\* Lines 124-137: a dated block with content; the walk of its children starts.
DayEnter ==
    /\ pc = "day" /\ day_i <= Len(day_divs)
    /\ DateSpans(day_divs[day_i]) # <<>>
    /\ DateIsValid(DateText(day_divs[day_i]))
    /\ Contents(day_divs[day_i]) # <<>>
    /\ event_date' = ParseDate(DateText(day_divs[day_i]))
    /\ children' = Contents(day_divs[day_i])[1].kids
    /\ elem_i' = 1
    /\ current_category' = None
    /\ pc' = "element"
    /\ UNCHANGED <<html, year, month, day_divs, day_i, rows, origin, result,
                   warned>>
    /\ UNCHANGED otherThanParse

\* Lines 138-139: a NavigableString among the children.
ElemNotTag ==
    /\ pc = "element" /\ elem_i <= Len(children)
    /\ ~IsTag(children[elem_i])
    /\ elem_i' = elem_i + 1
    /\ UNCHANGED <<html, year, month, pc, day_divs, day_i, event_date,
                   children, current_category, rows, origin, result, warned>>
    /\ UNCHANGED otherThanParse

\* Lines 144-146.
ElemHeadingDiv ==
    /\ pc = "element" /\ elem_i <= Len(children)
    /\ IsTag(children[elem_i])
    /\ IsHeadingDiv(children[elem_i])
    /\ current_category' = Str(GetText(children[elem_i], <<>>))
    /\ elem_i' = elem_i + 1
    /\ UNCHANGED <<html, year, month, pc, day_divs, day_i, event_date,
                   children, rows, origin, result, warned>>
    /\ UNCHANGED otherThanParse

\* Lines 148-151.
ElemParagraph ==
    /\ pc = "element" /\ elem_i <= Len(children)
    /\ IsTag(children[elem_i])
    /\ ~IsHeadingDiv(children[elem_i])
    /\ children[elem_i].tag = "p"
    /\ current_category' = ParagraphCategory(current_category, children[elem_i])
    /\ elem_i' = elem_i + 1
    /\ UNCHANGED <<html, year, month, pc, day_divs, day_i, event_date,
                   children, rows, origin, result, warned>>
    /\ UNCHANGED otherThanParse

\* Lines 153-154: not a list, or a list before any category.
ElemSkip ==
    /\ pc = "element" /\ elem_i <= Len(children)
    /\ IsTag(children[elem_i])
    /\ ~IsHeadingDiv(children[elem_i])
    /\ children[elem_i].tag # "p"
    /\ (children[elem_i].tag # "ul" \/ ~Truthy(current_category))
    /\ elem_i' = elem_i + 1
    /\ UNCHANGED <<html, year, month, pc, day_divs, day_i, event_date,
                   children, current_category, rows, origin, result, warned>>
    /\ UNCHANGED otherThanParse

\* Lines 158-189: a list under a category.
ElemCategoryUl ==
    /\ pc = "element" /\ elem_i <= Len(children)
    /\ IsTag(children[elem_i])
    /\ ~IsHeadingDiv(children[elem_i])
    /\ children[elem_i].tag = "ul" /\ Truthy(current_category)
    /\ rows' = rows \o UlRows(children[elem_i], event_date, year, month,
                              current_category.val)
    /\ origin' = origin \o
          [i \in 1..Len(UlKept(children[elem_i])) |->
              [day |-> day_i, elem |-> elem_i,
               entry |-> UlKept(children[elem_i])[i].entry,
               leaf |-> UlKept(children[elem_i])[i].leaf]]
    /\ elem_i' = elem_i + 1
    /\ UNCHANGED <<html, year, month, pc, day_divs, day_i, event_date,
                   children, current_category, result, warned>>
    /\ UNCHANGED otherThanParse

\* Line 137: the children are exhausted; the next day block.
DayDone ==
    /\ pc = "element" /\ elem_i > Len(children)
    /\ day_i' = day_i + 1
    /\ pc' = "day"
    /\ UNCHANGED <<html, year, month, day_divs, event_date, children, elem_i,
                   current_category, rows, origin, result, warned>>
    /\ UNCHANGED otherThanParse

\* Line 191: return pd.DataFrame(rows).
ParseReturn ==
    /\ pc = "day" /\ day_i > Len(day_divs)
    /\ pc' = "parsed"
    /\ UNCHANGED <<html, year, month, day_divs, day_i, event_date, children,
                   elem_i, current_category, rows, origin, result, warned>>
    /\ UNCHANGED otherThanParse

\* Lines 210-213: nothing parsed; the warning, and an empty table.
GetMonthWarns ==
    /\ pc = "parsed"
    /\ rows = <<>>
    /\ warned' = TRUE
    /\ result' = <<>>
    /\ pc' = "done"
    /\ UNCHANGED <<html, year, month, day_divs, day_i, event_date, children,
                   elem_i, current_category, rows, origin>>
    /\ UNCHANGED otherThanParse

\* Lines 214-216: the table, its dates as timestamps.
GetMonthReturns ==
    /\ pc = "parsed"
    /\ rows # <<>>
    /\ result' = [i \in 1..Len(rows) |->
                     [rows[i] EXCEPT !.date = ToDatetime(rows[i].date)]]
    /\ pc' = "done"
    /\ UNCHANGED <<html, year, month, day_divs, day_i, event_date, children,
                   elem_i, current_category, rows, origin, warned>>
    /\ UNCHANGED otherThanParse

---------------------------------------------------------------------------
(* _parse_html as a function of the page: what the actions above compute   *)
(* step by step, for the pages a property compares the parsed page with    *)

\* Lines 137-189: the records of the children of a content div from
\* position i on, the cursor being category.
RECURSIVE WalkRows(_, _, _, _, _, _)
WalkRows(kids, i, category, date, y, m) ==
    IF i > Len(kids) THEN <<>>
    ELSE IF ~IsTag(kids[i]) THEN WalkRows(kids, i + 1, category, date, y, m)
    ELSE IF IsHeadingDiv(kids[i])
         THEN WalkRows(kids, i + 1, Str(GetText(kids[i], <<>>)), date, y, m)
    ELSE IF kids[i].tag = "p"
         THEN WalkRows(kids, i + 1, ParagraphCategory(category, kids[i]),
                       date, y, m)
    ELSE IF kids[i].tag # "ul" \/ ~Truthy(category)
         THEN WalkRows(kids, i + 1, category, date, y, m)
    ELSE UlRows(kids[i], date, y, m, category.val) \o
         WalkRows(kids, i + 1, category, date, y, m)

\* Lines 122-189: the records of one day block.
DayRows(day_div, y, m) ==
    IF DateSpans(day_div) = <<>> THEN <<>>
    ELSE IF ~DateIsValid(DateText(day_div)) THEN <<>>
    ELSE IF Contents(day_div) = <<>> THEN <<>>
    ELSE WalkRows(Contents(day_div)[1].kids, 1, None,
                  ParseDate(DateText(day_div)), y, m)

\* Lines 114-191.
ParseHtml(soup, y, m) ==
    Flatten([d \in 1..Len(SelectDayDivs(soup)) |->
                DayRows(SelectDayDivs(soup)[d], y, m)])

\* The actions and the function agree on every page.
ParseAgrees == pc = "parsed" => rows = ParseHtml(html, year, month)

---------------------------------------------------------------------------
(* The pages the parser is run on                                          *)

MaxDays   == 2   \* day blocks of a page of PagesDays
MaxElems  == 3   \* children of the content of a page of PagesWalk
MaxKids   == 3   \* children of the entry of a page of PagesEntry
MaxPieces == 3   \* children of the leaf of a page of PagesText
MaxLinks  == 2   \* links of the leaf of a page of PagesLinks

LongText == <<"A new species of beetle was discovered in Brazil.">>
DateA    == <<"2024", "-", "01", "-", "15">>
DateBad  == <<"2024", "-", "02", "-", "30">>

\* <p><b>text</b></p>, the heading of the current format.
HeadingP(text) ==
    Element("p", {}, <<Element("b", {}, <<TextNode(text)>>)>>)

\* <div class="current-events-content-heading">text</div>, the legacy one.
HeadingDiv(text) ==
    Element("div", {"current-events-content-heading"}, <<TextNode(text)>>)

Li(kids) == Element("li", {}, kids)
Ul(items) == Element("ul", {}, items)

\* A link to an article, its title attribute set.
WikiLink(name) ==
    Anchor(<<"/wiki/", name>>, {}, <<name>>, <<TextNode(<<name>>)>>)

\* A citation: <a class="external text" href=...>(name)</a>.
Citation(name) ==
    Anchor(<<"https://", name>>, {"external", "text"}, <<>>,
           <<TextNode(<<"(", name, ")">>)>>)

\* A day block: the heading div, with the date marker when bday holds one
\* text, and the content div when content holds one list of children.
DayDiv(class, bday, content) ==
    Element("div", class,
        << Element("div", {"current-events-heading"},
               <<TextNode(<<"January 15, 2024">>)>> \o
               [i \in 1..Len(bday) |->
                   Element("span", {"bday"}, <<TextNode(bday[i])>>)]) >> \o
        [i \in 1..Len(content) |->
            Element("div", {"current-events-content"}, content[i])])

\* The document: the day blocks inside the parser output's wrapper.
Soup(blocks) ==
    Element("[document]", {},
        <<Element("div", {"mw-parser-output"}, blocks)>>)

\* The day blocks of a document built by Soup.
Blocks(soup) == soup.kids[1].kids

PrimaryClass == {"current-events"}
LegacyClass  == {"current-events-main", "vevent"}

\* A list of one entry that is its own leaf.
UlPlain == Ul(<<Li(<<TextNode(LongText)>>)>>)

\* PagesDays: up to MaxDays day blocks: of the current format with every
\* date marker and content, of the legacy format, and a div that is no day
\* block.
BlockSamples ==
    { DayDiv(PrimaryClass, b, k) :
        b \in {<<>>, <<DateA>>, <<DateBad>>},
        k \in {<<>>, << <<UlPlain>> >>,
               << <<HeadingP(<<"Science">>), UlPlain>> >>} }
    \cup
    { DayDiv(LegacyClass, b, k) :
        b \in {<<>>, <<DateA>>, <<DateBad>>},
        k \in {<<>>, << <<HeadingDiv(<<"Armed conflicts">>), UlPlain>> >>} }
    \cup
    { DayDiv({"navbox"}, <<DateA>>,
             << <<HeadingP(<<"Science">>), UlPlain>> >>) }

IsPageOfDays(h) ==
    \E n \in 0..MaxDays : \E bs \in [1..n -> BlockSamples] : h = Soup(bs)

\* PagesWalk: one dated block of the current format whose content holds up
\* to MaxElems children.
ElementSamples ==
    { HeadingP(<<"Science">>),
      HeadingDiv(<<"Armed conflicts">>),
      HeadingP(<<" ">>),
      Element("p", {}, <<TextNode(<<"(", "Reuters", ")">>)>>),
      Element("p", {}, <<Element("i", {},
                            <<Element("b", {}, <<TextNode(<<"Sports">>)>>)>>)>>),
      UlPlain,
      TextNode(<<"\n">>),
      Element("dl", {}, <<TextNode(LongText)>>) }

IsPageOfWalk(h) ==
    \E n \in 0..MaxElems : \E kids \in [1..n -> ElementSamples] :
        h = Soup(<<DayDiv(PrimaryClass, <<DateA>>, <<kids>>)>>)

\* A page of one dated block, one heading and one list of one entry.
EntryPage(kids) ==
    Soup(<<DayDiv(PrimaryClass, <<DateA>>,
                  << <<HeadingP(<<"Science">>), Ul(<<Li(kids)>>)>> >>)>>)

\* PagesEntry: the entry holds up to MaxKids children: text, links of every
\* kind, a link inside an inline element, nested lists.
EntryKidSamples ==
    { TextNode(LongText),
      WikiLink("France"),
      Anchor(<<"/wiki/", "Paris">>, {}, <<>>, <<TextNode(<<"Paris">>)>>),
      Anchor(<<"/wiki/", "Reuters">>, {"external"}, <<"Reuters">>,
             <<TextNode(<<"(", "Reuters", ")">>)>>),
      Element("i", {}, <<WikiLink("Brazil")>>),
      Ul(<< Li(<<TextNode(<<"An airstrike hits ">>), WikiLink("Rafah")>>),
            Li(<<TextNode(<<"Talks resume in ">>), WikiLink("Cairo")>>) >>),
      Ul(<< Li(<< WikiLink("Sudan"),
                 Ul(<< Li(<<TextNode(<<"Fighting spreads.">>)>>),
                       Li(<<TextNode(<<"ok">>)>>) >>) >>),
            Li(<<TextNode(<<"A ceasefire is signed.">>)>>) >>) }

IsPageOfEntry(h) ==
    \E n \in 0..MaxKids : \E kids \in [1..n -> EntryKidSamples] :
        h = EntryPage(kids)

\* PagesText: the entry is a leaf of up to MaxPieces strings, of 2, 4, 5, 9
\* and 10 characters, bare or inside an inline element.
PieceSamples ==
    { TextNode(<<"ok">>),
      TextNode(<<" ", "Rain", "\n">>),
      Element("b", {}, <<TextNode(<<"falls">>)>>),
      TextNode(<<"Nine chr.">>),
      TextNode(<<"Ten chars.">>),
      TextNode(<<" ">>) }

IsPageOfText(h) ==
    \E n \in 0..MaxPieces : \E kids \in [1..n -> PieceSamples] :
        h = EntryPage(kids)

\* PagesLinks: the entry is a leaf of a text and up to MaxLinks links.
LinkSamples ==
    { Anchor(<<"/wiki/", ns, "Current_events">>, {}, <<"Current events">>,
             <<TextNode(<<"events">>)>>) :
        ns \in {"Portal:", "Help:", "Special:", "Wikipedia:", "Talk:"} }
    \cup
    { WikiLink("France"),
      Anchor(<<"/wiki/", "Paris">>, {}, <<>>, <<TextNode(<<"Paris">>)>>),
      Anchor(<<"/wiki/", "Le_Monde">>, {}, <<" ", "Le Monde">>,
             <<TextNode(<<"Le Monde">>)>>),
      Anchor(<<"/wiki/", "Reuters">>, {"external", "text"}, <<"Reuters">>,
             <<TextNode(<<"(", "Reuters", ")">>)>>),
      Anchor(<<"https://", "bbc.co.uk">>, {}, <<"BBC">>,
             <<TextNode(<<"(", "BBC", ")">>)>>),
      Citation("AFP"),
      Anchor(<<"https://", "example.org">>, {"external", "autonumber"}, <<>>,
             <<TextNode(<<"(", ")">>)>>),
      Element("i", {}, <<WikiLink("Brazil")>>) }

IsPageOfLinks(h) ==
    \E n \in 0..MaxLinks : \E links \in [1..n -> LinkSamples] :
        h = EntryPage(<<TextNode(LongText)>> \o links)

\* The (year, month) of the request.
Requests == {<<2024, 1>>, <<2016, 12>>}

---------------------------------------------------------------------------
(* pandas tables: pd.DataFrame, pd.concat, DataFrame.sort_values           *)

\* A table: its column labels and its rows.
Frame(columns, rs) == [columns |-> columns, rows |-> rs]

\* pd.DataFrame(): no column, no row.
EmptyFrame == Frame(<<>>, <<>>)

\* The columns of pd.DataFrame(rows) for the dicts _parse_html appends.
EventColumns ==
    <<"date", "year", "month", "category", "sub_topic", "description",
      "wiki_links", "sources">>

\* The labels of b that a lacks, in b's order, after those of a.
ColumnUnion(a, b) ==
    a \o SelectSeq(b, LAMBDA c : \A i \in 1..Len(a) : a[i] # c)

RECURSIVE ConcatColumns(_)
ConcatColumns(frames) ==
    IF frames = <<>> THEN <<>>
    ELSE ColumnUnion(ConcatColumns(SubSeq(frames, 1, Len(frames) - 1)),
                     frames[Len(frames)].columns)

\* pd.concat(frames, ignore_index=True) of a non-empty list of tables.
Concat(frames) ==
    Frame(ConcatColumns(frames),
          Flatten([i \in 1..Len(frames) |-> frames[i].rows]))

\* Whether every label of by is a column: sort_values raises KeyError
\* otherwise.
HasColumns(frame, by) ==
    \A k \in 1..Len(by) : \E c \in 1..Len(frame.columns) : frame.columns[c] = by[k]

\* The order of timestamps.
DateKey(ts) == ts.year * 10000 + ts.month * 100 + ts.day

\* The order of str, by code points, on the category names of the pages:
\* the position of the name in their sorted list.
CategoriesInOrder ==
    << <<"Armed conflicts">>, <<"Politics">>, <<"Science">>, <<"Sports">> >>

CategoryKey(s) ==
    CHOOSE k \in 1..Len(CategoriesInOrder) : CategoriesInOrder[k] = s

\* The second key of a row in a sort by date and then by the column `by`:
\* for a category its place in the order of str, else the number itself.
SecondKey(r, by) ==
    IF by = "category" THEN CategoryKey(r.category) ELSE r[by]

\* a sorts before b, or ties with it, by date and then by the column `by`.
SortLE(a, b, by) ==
    \/ DateKey(a.date) < DateKey(b.date)
    \/ /\ DateKey(a.date) = DateKey(b.date)
       /\ SecondKey(a, by) <= SecondKey(b, by)

\* a sorts before b, or ties with it, by date and then by category.
RowLE(a, b) == SortLE(a, b, "category")

\* The rows in ascending order of date and then of `by`, ties in their
\* order of arrival (the sort of several keys is stable): row i goes to
\* the place that counts the rows sorting before it and the earlier rows
\* tying with it.
SortPlace(rs, i, by) ==
    Cardinality({j \in 1..Len(rs) :
        \/ ~SortLE(rs[i], rs[j], by)
        \/ SortLE(rs[j], rs[i], by) /\ j <= i})

SortRowsBy(rs, by) ==
    [p \in 1..Len(rs) |->
        rs[CHOOSE i \in 1..Len(rs) : SortPlace(rs, i, by) = p]]

\* The rows in ascending order of (date, category).
SortRows(rs) == SortRowsBy(rs, "category")

\* df.sort_values(["date", "category"]).reset_index(drop=True), the two
\* labels being columns.
SortValues(frame) == Frame(frame.columns, SortRows(frame.rows))

SortBy == <<"date", "category">>

---------------------------------------------------------------------------
(* get_month as a function of the page fetched, lines 209-216, and         *)
(* get_months, lines 236-258, one action per branch                        *)

\* Lines 209-216: the table get_month returns for a page.
GetMonth(page, y, m) ==
    LET parsed == ParseHtml(page, y, m)
    IN  IF parsed = <<>> THEN EmptyFrame
        ELSE Frame(EventColumns,
                   [i \in 1..Len(parsed) |->
                       [parsed[i] EXCEPT !.date = ToDatetime(parsed[i].date)]])

\* The months the ranges are drawn from: MaxSpan months from FirstMonth on.
MaxSpan == 3

FirstMonth == <<2023, 11>>

\* Lines 246-249: advance one month.
AdvanceMonth(t) == IF t[2] = 12 THEN <<t[1] + 1, 1>> ELSE <<t[1], t[2] + 1>>

RECURSIVE MonthAfter(_, _)
MonthAfter(t, n) == IF n = 0 THEN t ELSE AdvanceMonth(MonthAfter(t, n - 1))

RangeMonths == {MonthAfter(FirstMonth, n) : n \in 0..(MaxSpan - 1)}

\* The pages a month's fetch may return: one matching neither layout, one
\* of the current format whose categories are not in alphabetical order, one
\* of the legacy format.
DateOld == <<"2016", "-", "12", "-", "31">>

MonthPages ==
    { Soup(<<>>),
      Soup(<<DayDiv(PrimaryClass, <<DateA>>,
                    << <<HeadingP(<<"Science">>), UlPlain,
                        HeadingP(<<"Armed conflicts">>), UlPlain>> >>)>>),
      Soup(<<DayDiv(LegacyClass, <<DateOld>>,
                    << <<HeadingDiv(<<"Politics">>), UlPlain>> >>)>>) }

\* LoopCond, were the end month excluded.
LoopCondExclusive ==
    \/ ym[1] < m_args.end_year
    \/ ym[1] = m_args.end_year /\ ym[2] < m_args.end_month

\* Line 239: (y, m) <= (end_year, end_month), the order of tuples.
LoopCond ==
    \/ ym[1] < m_args.end_year
    \/ ym[1] = m_args.end_year /\ ym[2] <= m_args.end_month

\* Lines 236-237.
GetMonthsEnter ==
    /\ m_pc = "get_months"
    /\ dfs' = <<>>
    /\ ym' = <<m_args.start_year, m_args.start_month>>
    /\ m_pc' = "while"
    /\ UNCHANGED <<m_args, m_calls, m_warnings, m_df>>
    /\ UNCHANGED otherThanMonths

\* Lines 240-241 and 246-251: get_month returns a table.
MonthFetched ==
    /\ m_pc = "while" /\ LoopCond
    /\ \E page \in MonthPages :
          /\ dfs' = Append(dfs, GetMonth(page, ym[1], ym[2]))
          /\ m_calls' = Append(m_calls,
                [ym |-> ym, raised |-> FALSE,
                 frame |-> GetMonth(page, ym[1], ym[2])])
    /\ ym' = AdvanceMonth(ym)
    /\ UNCHANGED <<m_pc, m_args, m_warnings, m_df>>
    /\ UNCHANGED otherThanMonths

\* MonthRaises, were the call outside any try: the exception leaves
\* get_months.
MonthRaisesAborts ==
    /\ m_pc = "while" /\ LoopCond
    /\ m_calls' = Append(m_calls,
          [ym |-> ym, raised |-> TRUE, frame |-> EmptyFrame])
    /\ m_pc' = "raised"
    /\ UNCHANGED <<m_args, ym, dfs, m_warnings, m_df>>
    /\ UNCHANGED otherThanMonths

\* Lines 242-243 and 246-251: get_month raises; the warning.
MonthRaises ==
    /\ m_pc = "while" /\ LoopCond
    /\ m_calls' = Append(m_calls,
          [ym |-> ym, raised |-> TRUE, frame |-> EmptyFrame])
    /\ m_warnings' = Append(m_warnings, ym)
    /\ ym' = AdvanceMonth(ym)
    /\ UNCHANGED <<m_pc, m_args, dfs, m_df>>
    /\ UNCHANGED otherThanMonths

\* Lines 253-254: no table was collected.
MonthsReturnEmpty ==
    /\ m_pc = "while" /\ ~LoopCond
    /\ dfs = <<>>
    /\ m_df' = EmptyFrame
    /\ m_pc' = "returned"
    /\ UNCHANGED <<m_args, ym, dfs, m_calls, m_warnings>>
    /\ UNCHANGED otherThanMonths

\* Lines 256-257: the concatenation has no "date" column; sort_values
\* raises KeyError.
MonthsSortRaises ==
    /\ m_pc = "while" /\ ~LoopCond
    /\ dfs # <<>>
    /\ ~HasColumns(Concat(dfs), SortBy)
    /\ m_pc' = "raised"
    /\ UNCHANGED <<m_args, ym, dfs, m_calls, m_warnings, m_df>>
    /\ UNCHANGED otherThanMonths

\* Lines 256-258.
MonthsReturn ==
    /\ m_pc = "while" /\ ~LoopCond
    /\ dfs # <<>>
    /\ HasColumns(Concat(dfs), SortBy)
    /\ m_df' = SortValues(Concat(dfs))
    /\ m_pc' = "returned"
    /\ UNCHANGED <<m_args, ym, dfs, m_calls, m_warnings>>
    /\ UNCHANGED otherThanMonths

---------------------------------------------------------------------------
(* datetime.date: ordinals, timedelta, and the text of a date in the CSV   *)

Date(y, m, d) == [year |-> y, month |-> m, day |-> d]

RECURSIVE DaysBeforeMonth(_, _)
DaysBeforeMonth(y, m) ==
    IF m = 1 THEN 0 ELSE DaysBeforeMonth(y, m - 1) + DaysInMonth(y, m - 1)

\* date.toordinal(): the days from 0001-01-01, that day being 1.
Ordinal(d) ==
    LET y == d.year - 1
    IN  y * 365 + (y \div 4) - (y \div 100) + (y \div 400)
        + DaysBeforeMonth(d.year, d.month) + d.day

\* The days of the year the dates are drawn from.
CalendarDays ==
    {c \in {Date(2024, m, d) : m \in 1..12, d \in 1..31} :
        c.day <= DaysInMonth(c.year, c.month)}

\* date.fromordinal(n), for an ordinal of the year.
FromOrdinal(n) == CHOOSE c \in CalendarDays : Ordinal(c) = n

\* start + timedelta(days=i)
AddDays(d, i) == FromOrdinal(Ordinal(d) + i)

\* Two decimal digits, as the CSV writes a month or a day.
TwoDigits ==
    <<"01", "02", "03", "04", "05", "06", "07", "08", "09", "10",
      "11", "12", "13", "14", "15", "16", "17", "18", "19", "20",
      "21", "22", "23", "24", "25", "26", "27", "28", "29", "30", "31">>

\* The text of a timestamp at midnight in a CSV: YYYY-MM-DD.
FormatDate(ts) ==
    <<IF ts.year = 2024 THEN "2024" ELSE "0000", "-",
      TwoDigits[ts.month], "-", TwoDigits[ts.day]>>

\* pd.to_datetime(text).date() of such a text.
DigitsValue(tok) == CHOOSE k \in 1..Len(TwoDigits) : TwoDigits[k] = tok

ParseCsvDate(text) ==
    Date(IF text[1] = "2024" THEN 2024 ELSE 0,
         DigitsValue(text[3]), DigitsValue(text[5]))

---------------------------------------------------------------------------
(* WikipediaPageviewsAPI.get_day, lines 302-315                            *)

TOP_N == 100

\* A payload lists up to MaxArticles articles.
MaxArticles == 102

\* The article of rank i in a payload, as the API lists it: the payload is
\* in rank order from 1, the views descending.
Article(i) == [article |-> i, views |-> 1000000 - i, rank |-> i]

\* Bodies: not JSON; JSON without "items"; a payload of n articles.
NotJson == [json |-> FALSE, items |-> FALSE, articles |-> <<>>]

NoItems == [json |-> TRUE, items |-> FALSE, articles |-> <<>>]

Payload(n) ==
    [json |-> TRUE, items |-> TRUE, articles |-> [i \in 1..n |-> Article(i)]]

\* session.get raised (connection error, timeout).
TransportError == [raises |-> TRUE, status |-> 0, body |-> NotJson]

Response(status, body) == [raises |-> FALSE, status |-> status, body |-> body]

\* The statuses a response may carry to the caller: success, a 3xx that is
\* not followed (no Location to go to), 404, and errors.
DayStatuses == {200, 304, 404, 429, 503}

\* response.raise_for_status(): raises for 400..599.
RaisesForStatus(status) == 400 <= status /\ status < 600

\* Whether line 312-313 builds a table from the body: resp.json() parses,
\* "items" and its "articles" are there, and the table has the columns.
BodyGivesTable(body) == body.json /\ body.items /\ body.articles # <<>>

\* FirstArticles, were the list not cut.
FirstArticlesUncut(articles) == articles

\* articles[: self.TOP_N]
FirstArticles(articles) ==
    SubSeq(articles, 1, IF Len(articles) < TOP_N THEN Len(articles) ELSE TOP_N)

PageviewColumns == <<"date", "rank", "article", "views">>

\* Lines 312-314: the table of a payload for the day d.
DayTable(d, body) ==
    LET articles == FirstArticles(body.articles)
    IN  Frame(PageviewColumns,
              [i \in 1..Len(articles) |->
                  [date |-> ToDatetime(d), rank |-> articles[i].rank,
                   article |-> articles[i].article,
                   views |-> articles[i].views]])

NoOutcome == [df |-> EmptyFrame, is_missing |-> FALSE]

\* Lines 303-304 and 308-310: session.get raises; the warning.
GetDaySendRaises ==
    /\ d_pc = "get_day"
    /\ d_resp' = TransportError
    /\ d_out' = [df |-> EmptyFrame, is_missing |-> FALSE]
    /\ d_pc' = "returned"
    /\ UNCHANGED d_arg
    /\ UNCHANGED otherThanDay

\* Line 304: a response arrives.
GetDayResponds ==
    /\ d_pc = "get_day"
    /\ \E status \in DayStatuses :
       \E body \in {NotJson, NoItems} \cup {Payload(n) : n \in 0..MaxArticles} :
          d_resp' = Response(status, body)
    /\ d_pc' = "responded"
    /\ UNCHANGED <<d_arg, d_out>>
    /\ UNCHANGED otherThanDay

\* GetDay404, were a 404 reported like any failed fetch.
GetDay404AsFailure ==
    /\ d_pc = "responded"
    /\ d_resp.status = 404
    /\ d_out' = [df |-> EmptyFrame, is_missing |-> FALSE]
    /\ d_pc' = "returned"
    /\ UNCHANGED <<d_arg, d_resp>>
    /\ UNCHANGED otherThanDay

\* Lines 305-306.
GetDay404 ==
    /\ d_pc = "responded"
    /\ d_resp.status = 404
    /\ d_out' = [df |-> EmptyFrame, is_missing |-> TRUE]
    /\ d_pc' = "returned"
    /\ UNCHANGED <<d_arg, d_resp>>
    /\ UNCHANGED otherThanDay

\* Lines 307-310: raise_for_status raises; the warning.
GetDayStatusRaises ==
    /\ d_pc = "responded"
    /\ d_resp.status # 404
    /\ RaisesForStatus(d_resp.status)
    /\ d_out' = [df |-> EmptyFrame, is_missing |-> FALSE]
    /\ d_pc' = "returned"
    /\ UNCHANGED <<d_arg, d_resp>>
    /\ UNCHANGED otherThanDay

\* Lines 312-313, outside the try: resp.json() raises, or "items" is not
\* there, or the table of no article has no "rank" column.
GetDayBodyRaises ==
    /\ d_pc = "responded"
    /\ d_resp.status # 404
    /\ ~RaisesForStatus(d_resp.status)
    /\ ~BodyGivesTable(d_resp.body)
    /\ d_pc' = "raised"
    /\ UNCHANGED <<d_arg, d_resp, d_out>>
    /\ UNCHANGED otherThanDay

\* Lines 312-315.
GetDayReturns ==
    /\ d_pc = "responded"
    /\ d_resp.status # 404
    /\ ~RaisesForStatus(d_resp.status)
    /\ BodyGivesTable(d_resp.body)
    /\ d_out' = [df |-> DayTable(d_arg, d_resp.body), is_missing |-> FALSE]
    /\ d_pc' = "returned"
    /\ UNCHANGED <<d_arg, d_resp>>
    /\ UNCHANGED otherThanDay

\* get_day as a function of the day and of what session.get gives: whether
\* an exception leaves it, and what it returns otherwise.
GetDay(d, resp) ==
    IF resp.raises
      THEN [raised |-> FALSE, df |-> EmptyFrame, is_missing |-> FALSE]
    ELSE IF resp.status = 404
      THEN [raised |-> FALSE, df |-> EmptyFrame, is_missing |-> TRUE]
    ELSE IF RaisesForStatus(resp.status)
      THEN [raised |-> FALSE, df |-> EmptyFrame, is_missing |-> FALSE]
    ELSE IF ~BodyGivesTable(resp.body)
      THEN [raised |-> TRUE, df |-> EmptyFrame, is_missing |-> FALSE]
    ELSE [raised |-> FALSE, df |-> DayTable(d, resp.body), is_missing |-> FALSE]

\* The actions and the function agree.
GetDayAgrees ==
    /\ d_pc = "returned" =>
          GetDay(d_arg, d_resp) =
            [raised |-> FALSE, df |-> d_out.df, is_missing |-> d_out.is_missing]
    /\ d_pc = "raised" => GetDay(d_arg, d_resp).raised

\* The days get_day is called for.
DayArgs == {Date(2024, 1, 31), Date(2024, 2, 1), Date(2024, 2, 29)}

---------------------------------------------------------------------------
(* The CSV at save_path: DataFrame.to_csv(mode="a"), pd.read_csv           *)

\* A file: whether it exists, and its lines. A line is the header or a row,
\* the row's date as text.
NoFile == [exists |-> FALSE, lines |-> <<>>]

HeaderLine ==
    [kind |-> "header", date |-> <<"date">>, rank |-> 0, article |-> 0,
     views |-> 0]

RowLine(r) ==
    [kind |-> "row", date |-> FormatDate(r.date), rank |-> r.rank,
     article |-> r.article, views |-> r.views]

\* df_day.to_csv(save_path, mode="a", header=header, index=False)
ToCsv(file, frame, header) ==
    [exists |-> TRUE,
     lines  |-> file.lines \o (IF header THEN <<HeaderLine>> ELSE <<>>) \o
                [i \in 1..Len(frame.rows) |-> RowLine(frame.rows[i])]]

\* The data lines of an existing file: those after the first, the header.
DataLines(file) == SubSeq(file.lines, 2, Len(file.lines))

\* Lines 343-344: the dates of the rows of the file. Every data line of a
\* file is read as a row.
FetchedDates(file) ==
    {ParseCsvDate(DataLines(file)[i].date) :
        i \in {k \in 1..Len(DataLines(file)) : DataLines(file)[k].kind = "row"}}

\* a sorts before b, or ties with it, by date and then by rank.
RankLE(a, b) == SortLE(a, b, "rank")

\* Lines 378-380: the table read from the file, its dates as timestamps,
\* sorted by date and rank.
LoadCsv(file) ==
    LET data == DataLines(file)
    IN  Frame(PageviewColumns,
              SortRowsBy([i \in 1..Len(data) |->
                             [date |-> ToDatetime(ParseCsvDate(data[i].date)),
                              rank |-> data[i].rank,
                              article |-> data[i].article,
                              views |-> data[i].views]],
                         "rank"))

---------------------------------------------------------------------------
(* WikipediaPageviewsAPI.backfill, lines 338-382, run after run on one     *)
(* save_path                                                               *)

\* The runs made on the path, and the days their ranges are drawn from:
\* MaxDates days from FirstDate on.
MaxRuns == 3

MaxDates == 3

FirstDate == Date(2024, 1, 31)

BackfillDates == {AddDays(FirstDate, i) : i \in 0..(MaxDates - 1)}

\* Lines 346-349.
AllDates(args) ==
    [k \in 1..(Ordinal(args.end_date) - Ordinal(args.start_date) + 1) |->
        AddDays(args.start_date, k - 1)]

\* ToFetch, were the dates of the file not skipped.
ToFetchEveryDate(args, file) == AllDates(args)

\* Lines 341-350.
ToFetch(args, file) ==
    LET fetched == IF file.exists THEN FetchedDates(file) ELSE {}
    IN  SelectSeq(AllDates(args), LAMBDA d : d \notin fetched)

\* WriteHeader, were every run to begin with the header.
WriteHeaderAlways(file) == TRUE

\* Line 356.
WriteHeader(file) == ~file.exists

\* What session.get may give for a day of a run.
BackfillResponses ==
    { TransportError, Response(404, NotJson), Response(200, Payload(2)),
      Response(200, NotJson) }

\* The day the loop stands at, and what get_day gives for a response.
BackfillDay == to_fetch[b_i]

\* Lines 338-353: nothing to fetch.
BackfillUpToDate ==
    /\ b_pc = "backfill"
    /\ ToFetch(b_args, csv) = <<>>
    /\ to_fetch' = <<>>
    /\ b_pc' = "load"
    /\ UNCHANGED <<csv, b_args, b_i, write_header, missing_count,
                   b_requests, csv_start, b_df, b_runs>>
    /\ UNCHANGED otherThanBackfill

\* Lines 338-357: the dates to fetch.
BackfillPlans ==
    /\ b_pc = "backfill"
    /\ ToFetch(b_args, csv) # <<>>
    /\ to_fetch' = ToFetch(b_args, csv)
    /\ write_header' = WriteHeader(csv)
    /\ missing_count' = 0
    /\ b_i' = 1
    /\ b_pc' = "fetch"
    /\ UNCHANGED <<csv, b_args, b_requests, csv_start, b_df, b_runs>>
    /\ UNCHANGED otherThanBackfill

\* Lines 359-361 and 370-372: the day has no data.
DayIsMissing ==
    /\ b_pc = "fetch" /\ b_i <= Len(to_fetch)
    /\ \E resp \in BackfillResponses :
          /\ ~GetDay(BackfillDay, resp).raised
          /\ GetDay(BackfillDay, resp).is_missing
    /\ missing_count' = missing_count + 1
    /\ b_requests' = Append(b_requests, BackfillDay)
    /\ b_i' = b_i + 1
    /\ UNCHANGED <<csv, b_pc, b_args, to_fetch, write_header, csv_start,
                   b_df, b_runs>>
    /\ UNCHANGED otherThanBackfill

\* Lines 359-362 and 370-372: the fetch failed; nothing is written.
DayIsEmpty ==
    /\ b_pc = "fetch" /\ b_i <= Len(to_fetch)
    /\ \E resp \in BackfillResponses :
          /\ ~GetDay(BackfillDay, resp).raised
          /\ ~GetDay(BackfillDay, resp).is_missing
          /\ GetDay(BackfillDay, resp).df.rows = <<>>
    /\ b_requests' = Append(b_requests, BackfillDay)
    /\ b_i' = b_i + 1
    /\ UNCHANGED <<csv, b_pc, b_args, to_fetch, write_header, missing_count,
                   csv_start, b_df, b_runs>>
    /\ UNCHANGED otherThanBackfill

\* Lines 359-372: the day's table is appended to the file.
DayIsSaved ==
    /\ b_pc = "fetch" /\ b_i <= Len(to_fetch)
    /\ \E resp \in BackfillResponses :
          /\ ~GetDay(BackfillDay, resp).raised
          /\ ~GetDay(BackfillDay, resp).is_missing
          /\ GetDay(BackfillDay, resp).df.rows # <<>>
          /\ csv' = ToCsv(csv, GetDay(BackfillDay, resp).df, write_header)
    /\ write_header' = FALSE
    /\ b_requests' = Append(b_requests, BackfillDay)
    /\ b_i' = b_i + 1
    /\ UNCHANGED <<b_pc, b_args, to_fetch, missing_count, csv_start, b_df,
                   b_runs>>
    /\ UNCHANGED otherThanBackfill

\* Line 359: an exception leaves get_day, and backfill with it.
DayRaises ==
    /\ b_pc = "fetch" /\ b_i <= Len(to_fetch)
    /\ \E resp \in BackfillResponses : GetDay(BackfillDay, resp).raised
    /\ b_requests' = Append(b_requests, BackfillDay)
    /\ b_pc' = "aborted"
    /\ UNCHANGED <<csv, b_args, to_fetch, b_i, write_header, missing_count,
                   csv_start, b_df, b_runs>>
    /\ UNCHANGED otherThanBackfill

\* The run is interrupted between two days (during the sleep of line 372).
Interrupted ==
    /\ b_pc = "fetch" /\ 1 < b_i /\ b_i <= Len(to_fetch)
    /\ b_pc' = "interrupted"
    /\ UNCHANGED <<csv, b_args, to_fetch, b_i, write_header, missing_count,
                   b_requests, csv_start, b_df, b_runs>>
    /\ UNCHANGED otherThanBackfill

\* Lines 373-376: the loop is over.
FetchDone ==
    /\ b_pc = "fetch" /\ b_i > Len(to_fetch)
    /\ b_pc' = "load"
    /\ UNCHANGED <<csv, b_args, to_fetch, b_i, write_header, missing_count,
                   b_requests, csv_start, b_df, b_runs>>
    /\ UNCHANGED otherThanBackfill

\* Line 378: there is no file; read_csv raises FileNotFoundError.
LoadRaises ==
    /\ b_pc = "load"
    /\ ~csv.exists
    /\ b_pc' = "raised"
    /\ UNCHANGED <<csv, b_args, to_fetch, b_i, write_header, missing_count,
                   b_requests, csv_start, b_df, b_runs>>
    /\ UNCHANGED otherThanBackfill

\* Lines 378-382.
LoadReturns ==
    /\ b_pc = "load"
    /\ csv.exists
    /\ b_df' = LoadCsv(csv)
    /\ b_pc' = "returned"
    /\ UNCHANGED <<csv, b_args, to_fetch, b_i, write_header, missing_count,
                   b_requests, csv_start, b_runs>>
    /\ UNCHANGED otherThanBackfill

\* The run is over: it returned, raised, or was interrupted.
RunOver == b_pc \in {"returned", "raised", "aborted", "interrupted"}

\* Another run on the same path, on any range.
NextRun ==
    /\ RunOver
    /\ b_runs < MaxRuns
    /\ b_runs' = b_runs + 1
    /\ \E s \in BackfillDates : \E e \in BackfillDates :
          b_args' = [start_date |-> s, end_date |-> e]
    /\ csv_start' = csv
    /\ to_fetch' = <<>>
    /\ b_i' = 0
    /\ write_header' = FALSE
    /\ missing_count' = 0
    /\ b_requests' = <<>>
    /\ b_df' = EmptyFrame
    /\ b_pc' = "backfill"
    /\ UNCHANGED csv
    /\ UNCHANGED otherThanBackfill

---------------------------------------------------------------------------
(* BaseGovernmentAPI._make_request, base_api.py lines 35-62, with the      *)
(* REQUEST_SETTINGS of settings.py                                         *)

retry_attempts == 3

retry_delay == 1

rate_limit_delay == 1

\* The method argument, and the data argument: none, or a dict.
Methods == {"GET", "POST", "post"}

Upper(method) == IF method = "post" THEN "POST" ELSE method

DataArgs == {"None", "dict"}

\* What an attempt may come to: a response of success status whose body is
\* JSON; an exception of the transport (connection, timeout); a status that
\* raise_for_status rejects; a body that response.json() cannot decode, its
\* JSONDecodeError being a RequestException too.
JsonBodies == {"{}", "{\"status\": \"REQUEST_SUCCEEDED\"}"}

Failures == {"transport", "status", "json"}

\* The request an attempt sends, lines 37-50.
SentRequest(method, data, failure) ==
    [verb    |-> IF Upper(method) = "POST" THEN "POST" ELSE "GET",
     payload |-> data,
     failure |-> failure]

\* IsLastAttempt, were the comparison with retry_attempts itself.
IsLastAttemptLate(n) == n = retry_attempts

\* Line 60.
IsLastAttempt(n) == n = retry_attempts - 1

\* Line 35: the loop begins.
RequestEnter ==
    /\ r_pc = "_make_request"
    /\ attempt' = 0
    /\ r_pc' = "try"
    /\ UNCHANGED <<r_args, r_sent, r_slept, r_result>>
    /\ UNCHANGED otherThanRequest

\* Lines 36-57: the attempt succeeds; the rate-limit sleep, and the JSON.
AttemptSucceeds ==
    /\ r_pc = "try" /\ attempt < retry_attempts
    /\ r_sent' = Append(r_sent, SentRequest(r_args.method, r_args.data, "none"))
    /\ r_slept' = r_slept + rate_limit_delay
    /\ \E body \in JsonBodies : r_result' = body
    /\ r_pc' = "returned"
    /\ UNCHANGED <<r_args, attempt>>
    /\ UNCHANGED otherThanRequest

\* Lines 36-52 and 59-62: the attempt fails and is not the last; the sleep,
\* and the next attempt.
AttemptFailsRetry ==
    /\ r_pc = "try" /\ attempt < retry_attempts
    /\ ~IsLastAttempt(attempt)
    /\ \E f \in Failures :
          r_sent' = Append(r_sent, SentRequest(r_args.method, r_args.data, f))
    /\ r_slept' = r_slept + retry_delay * (attempt + 1)
    /\ attempt' = attempt + 1
    /\ UNCHANGED <<r_args, r_pc, r_result>>
    /\ UNCHANGED otherThanRequest

\* Lines 36-52 and 59-61: the last attempt fails; the exception.
AttemptFailsLast ==
    /\ r_pc = "try" /\ attempt < retry_attempts
    /\ IsLastAttempt(attempt)
    /\ \E f \in Failures :
          r_sent' = Append(r_sent, SentRequest(r_args.method, r_args.data, f))
    /\ r_pc' = "raised"
    /\ UNCHANGED <<r_args, attempt, r_slept, r_result>>
    /\ UNCHANGED otherThanRequest

---------------------------------------------------------------------------
(* BLSAPI.get_data, bls_api.py lines 41-87                                 *)

\* Lines 44 and 49: the steps of the two loops.
YearsPerRequest == 20

SeriesPerRequest == 50

\* The lists given hold up to MaxSeries series ids and up to MaxYears years.
MaxSeries == 51

MaxYears == 21

Min2(a, b) == IF a <= b THEN a ELSE b

\* xs[lo:hi] of Python, lo and hi not negative.
PySlice(xs, lo, hi) == SubSeq(xs, lo + 1, Min2(hi, Len(xs)))

\* min(xs) and max(xs) of a list that is not empty.
ListMin(xs) == CHOOSE v \in {xs[i] : i \in DOMAIN xs} :
                  \A i \in DOMAIN xs : v <= xs[i]

ListMax(xs) == CHOOSE v \in {xs[i] : i \in DOMAIN xs} :
                  \A i \in DOMAIN xs : v >= xs[i]

\* str(n) of a year of four digits, and the year such a text writes.
YearStr(n) == <<n \div 1000, (n \div 100) % 10, (n \div 10) % 10, n % 10>>

YearOfStr(t) == t[1] * 1000 + t[2] * 100 + t[3] * 10 + t[4]

\* A list of n series ids, each one told by its number.
SeriesIds(n) == [i \in 1..n |-> i]

SeriesLens == {0, 1, MaxSeries - 2, MaxSeries - 1, MaxSeries}

\* Lists of years: n years in a row from 2000 on, ascending or descending,
\* and two years further apart than a request may cover.
YearsInARow(n) == [i \in 1..n |-> 1999 + i]

YearsDescending(n) == [i \in 1..n |-> 2000 + n - i]

YearLists ==
    {YearsInARow(n) : n \in {0, 1, MaxYears - 1, MaxYears}}
        \cup {YearsDescending(MaxYears), <<2000, 2000 + MaxYears>>}

\* self.api_key: none, or a key.
ApiKeys == {"", "key"}

\* Lines 52-60.
RequestData(series_chunk, start_year, end_year, api_key) ==
    [seriesid        |-> series_chunk,
     startyear       |-> YearStr(start_year),
     endyear         |-> YearStr(end_year),
     registrationkey |-> IF api_key # "" THEN <<api_key>> ELSE <<>>]

\* The values of the items of a response that succeeded: of the kind
\* "mixed" a number for the series at odd places of the request and "."
\* for the others; of the kind "empty" no value for any.
ResponseKinds == {"mixed", "empty"}

ItemValue(kind, place) ==
    IF kind = "empty" THEN ""
    ELSE IF place % 2 = 1 THEN "1.5" ELSE "."

\* float(text) of the text of a number, in tenths.
Float(text) == IF text = "1.5" THEN [tenths |-> 15] ELSE [tenths |-> 0]

\* Line 73.
KeepsItem(value) == value # "" /\ value # "."

\* Lines 70-80: the rows a response adds, one item for each series of the
\* request, of the first year asked for.
ResponseRows(data, kind) ==
    LET places == {p \in 1..Len(data.seriesid) : KeepsItem(ItemValue(kind, p))}
        nth(k) == CHOOSE p \in places :
                     Cardinality({q \in places : q < p}) = k - 1
    IN  [k \in 1..Cardinality(places) |->
            [series_id |-> data.seriesid[nth(k)],
             year      |-> YearOfStr(data.startyear),
             period    |-> "M01",
             value     |-> Float(ItemValue(kind, nth(k)))]]

\* Line 41.
GetDataEnter ==
    /\ gd_pc = "get_data"
    /\ gd_df' = <<>>
    /\ gd_y' = 0
    /\ gd_pc' = "years"
    /\ UNCHANGED <<gd_args, gd_chunk, gd_s, gd_sent>>
    /\ UNCHANGED otherThanGetData

\* Lines 44-47: the next chunk of years, its least and its greatest.
YearChunk ==
    /\ gd_pc = "years"
    /\ gd_y < Len(gd_args.years)
    /\ LET year_chunk == PySlice(gd_args.years, gd_y,
                                 Min2(gd_y + YearsPerRequest, Len(gd_args.years)))
       IN  gd_chunk' = [year_chunk |-> year_chunk,
                        start_year |-> ListMin(year_chunk),
                        end_year   |-> ListMax(year_chunk)]
    /\ gd_s' = 0
    /\ gd_pc' = "series"
    /\ UNCHANGED <<gd_args, gd_y, gd_sent, gd_df>>
    /\ UNCHANGED otherThanGetData

\* Lines 49-56: the request of the next chunk of series.
NextRequestData ==
    RequestData(PySlice(gd_args.series_ids, gd_s,
                        Min2(gd_s + SeriesPerRequest, Len(gd_args.series_ids))),
                gd_chunk.start_year, gd_chunk.end_year, gd_args.api_key)

\* Lines 49-80: the request succeeds and its rows are added.
RequestSucceeded ==
    /\ gd_pc = "series"
    /\ gd_s < Len(gd_args.series_ids)
    /\ \E kind \in ResponseKinds :
          /\ gd_sent' = Append(gd_sent, [y |-> gd_y, s |-> gd_s,
                                         data |-> NextRequestData,
                                         outcome |-> kind])
          /\ gd_df' = gd_df \o ResponseRows(NextRequestData, kind)
    /\ gd_s' = gd_s + SeriesPerRequest
    /\ UNCHANGED <<gd_args, gd_pc, gd_y, gd_chunk>>
    /\ UNCHANGED otherThanGetData

\* Lines 49-69 and 81-82: the API answers with an error.
RequestApiError ==
    /\ gd_pc = "series"
    /\ gd_s < Len(gd_args.series_ids)
    /\ gd_sent' = Append(gd_sent, [y |-> gd_y, s |-> gd_s,
                                   data |-> NextRequestData,
                                   outcome |-> "REQUEST_NOT_PROCESSED"])
    /\ gd_s' = gd_s + SeriesPerRequest
    /\ UNCHANGED <<gd_args, gd_pc, gd_y, gd_chunk, gd_df>>
    /\ UNCHANGED otherThanGetData

\* Lines 49-63 and 84-85: _make_request raises, and the loop goes on.
RequestRaises ==
    /\ gd_pc = "series"
    /\ gd_s < Len(gd_args.series_ids)
    /\ gd_sent' = Append(gd_sent, [y |-> gd_y, s |-> gd_s,
                                   data |-> NextRequestData,
                                   outcome |-> "raised"])
    /\ gd_s' = gd_s + SeriesPerRequest
    /\ UNCHANGED <<gd_args, gd_pc, gd_y, gd_chunk, gd_df>>
    /\ UNCHANGED otherThanGetData

\* Line 49, the series are over: line 44, the next chunk of years.
SeriesDone ==
    /\ gd_pc = "series"
    /\ gd_s >= Len(gd_args.series_ids)
    /\ gd_y' = gd_y + YearsPerRequest
    /\ gd_pc' = "years"
    /\ UNCHANGED <<gd_args, gd_chunk, gd_s, gd_sent, gd_df>>
    /\ UNCHANGED otherThanGetData

\* Line 44, the years are over: line 87.
GetDataReturns ==
    /\ gd_pc = "years"
    /\ gd_y >= Len(gd_args.years)
    /\ gd_pc' = "returned"
    /\ UNCHANGED <<gd_args, gd_y, gd_chunk, gd_s, gd_sent, gd_df>>
    /\ UNCHANGED otherThanGetData

---------------------------------------------------------------------------
(* get_bls_data, api_bls.py lines 10-38                                    *)

\* Line 17: the series ids of the request at s.
BlsSeriesChunk(series_ids, s) ==
    PySlice(series_ids, s, Min2(s + 49, Len(series_ids)))

\* Lines 18 and 19: the startyear and the endyear of the requests at y.
BlsStartYear(years, y) == years[y + 1]

BlsEndYear(years, y) == years[Min2(y + 19, Len(years) - 1) + 1]

\* Lines 15-22: the object json.dumps writes, its years numbers.
BlsRequestData ==
    [seriesid        |-> BlsSeriesChunk(gb_args.series_ids, gb_s),
     startyear       |-> BlsStartYear(gb_args.years, gb_y),
     endyear         |-> BlsEndYear(gb_args.years, gb_y),
     registrationkey |-> "bls_api_key"]

\* Line 33.
BlsKeepsItem(value) == value # ""

\* Lines 27-34: the rows a response adds, one item for each series of the
\* request, of the first year asked for; year and value stay texts.
BlsResponseRows(data, kind) ==
    LET places == {p \in 1..Len(data.seriesid) :
                      BlsKeepsItem(ItemValue(kind, p))}
        nth(k) == CHOOSE p \in places :
                     Cardinality({q \in places : q < p}) = k - 1
    IN  [k \in 1..Cardinality(places) |->
            [series_id |-> data.seriesid[nth(k)],
             year      |-> YearStr(data.startyear),
             period    |-> "M01",
             value     |-> ItemValue(kind, nth(k))]]

\* Line 11.
BlsEnter ==
    /\ gb_pc = "get_bls_data"
    /\ gb_df' = <<>>
    /\ gb_y' = 0
    /\ gb_s' = 0
    /\ gb_pc' = "loop"
    /\ UNCHANGED <<gb_args, gb_sent>>
    /\ UNCHANGED otherThanBls

\* Lines 13-36: the request at (y, s) is answered, its rows are added.
BlsRequestAnswered ==
    /\ gb_pc = "loop"
    /\ gb_y < Len(gb_args.years)
    /\ gb_s < Len(gb_args.series_ids)
    /\ \E kind \in ResponseKinds :
          /\ gb_sent' = Append(gb_sent, [y |-> gb_y, s |-> gb_s,
                                         data |-> BlsRequestData,
                                         outcome |-> kind])
          /\ gb_df' = gb_df \o BlsResponseRows(BlsRequestData, kind)
    /\ gb_s' = gb_s + 50
    /\ UNCHANGED <<gb_args, gb_pc, gb_y>>
    /\ UNCHANGED otherThanBls

\* Lines 13-27: requests.post raises, or the answer is no JSON, or it has
\* no 'Results': the exception leaves get_bls_data.
BlsRequestRaises ==
    /\ gb_pc = "loop"
    /\ gb_y < Len(gb_args.years)
    /\ gb_s < Len(gb_args.series_ids)
    /\ gb_sent' = Append(gb_sent, [y |-> gb_y, s |-> gb_s,
                                   data |-> BlsRequestData,
                                   outcome |-> "raised"])
    /\ gb_pc' = "raised"
    /\ UNCHANGED <<gb_args, gb_y, gb_s, gb_df>>
    /\ UNCHANGED otherThanBls

\* Line 14, the series are over: line 13, the next years.
BlsSeriesDone ==
    /\ gb_pc = "loop"
    /\ gb_y < Len(gb_args.years)
    /\ gb_s >= Len(gb_args.series_ids)
    /\ gb_y' = gb_y + 20
    /\ gb_s' = 0
    /\ UNCHANGED <<gb_args, gb_pc, gb_sent, gb_df>>
    /\ UNCHANGED otherThanBls

\* Line 13, the years are over: line 38.
BlsReturns ==
    /\ gb_pc = "loop"
    /\ gb_y >= Len(gb_args.years)
    /\ gb_pc' = "returned"
    /\ UNCHANGED <<gb_args, gb_y, gb_s, gb_sent, gb_df>>
    /\ UNCHANGED otherThanBls

---------------------------------------------------------------------------
(* The specification                                                       *)

\* get_month is not running by itself.
ParseIdle ==
    /\ html = Soup(<<>>)
    /\ year = 0 /\ month = 0
    /\ pc = "idle"
    /\ day_divs = <<>>
    /\ day_i = 0
    /\ event_date = NoDate
    /\ children = <<>>
    /\ elem_i = 0
    /\ current_category = None
    /\ rows = <<>>
    /\ origin = <<>>
    /\ result = <<>>
    /\ warned = FALSE

\* get_months is not running.
MonthsIdle ==
    /\ m_pc = "idle"
    /\ m_args = [start_year |-> 0, start_month |-> 0,
                 end_year |-> 0, end_month |-> 0]
    /\ ym = <<0, 0>>
    /\ dfs = <<>>
    /\ m_calls = <<>>
    /\ m_warnings = <<>>
    /\ m_df = EmptyFrame

\* get_day is not running by itself.
DayIdle ==
    /\ d_pc = "idle"
    /\ d_arg = Date(2024, 1, 1)
    /\ d_resp = TransportError
    /\ d_out = NoOutcome

\* backfill is not running.
BackfillIdle ==
    /\ csv = NoFile
    /\ csv_start = NoFile
    /\ b_pc = "idle"
    /\ b_args = [start_date |-> Date(2024, 1, 1), end_date |-> Date(2024, 1, 1)]
    /\ to_fetch = <<>>
    /\ b_i = 0
    /\ write_header = FALSE
    /\ missing_count = 0
    /\ b_requests = <<>>
    /\ b_df = EmptyFrame
    /\ b_runs = 0

\* _make_request is not running.
RequestIdle ==
    /\ r_pc = "idle"
    /\ r_args = [method |-> "GET", data |-> "None"]
    /\ attempt = 0
    /\ r_sent = <<>>
    /\ r_slept = 0
    /\ r_result = "None"

\* get_data is not running.
GetDataIdle ==
    /\ gd_pc = "idle"
    /\ gd_args = [series_ids |-> <<>>, years |-> <<>>, api_key |-> ""]
    /\ gd_y = 0
    /\ gd_chunk = [year_chunk |-> <<>>, start_year |-> 0, end_year |-> 0]
    /\ gd_s = 0
    /\ gd_sent = <<>>
    /\ gd_df = <<>>

\* get_bls_data is not running.
BlsIdle ==
    /\ gb_pc = "idle"
    /\ gb_args = [series_ids |-> <<>>, years |-> <<>>]
    /\ gb_y = 0
    /\ gb_s = 0
    /\ gb_sent = <<>>
    /\ gb_df = <<>>

Init ==
    /\ \/ IsPageOfDays(html)
       \/ IsPageOfWalk(html)
       \/ IsPageOfEntry(html)
       \/ IsPageOfText(html)
       \/ IsPageOfLinks(html)
    /\ \E r \in Requests : year = r[1] /\ month = r[2]
    /\ pc = "get_month"
    /\ day_divs = <<>>
    /\ day_i = 0
    /\ event_date = NoDate
    /\ children = <<>>
    /\ elem_i = 0
    /\ current_category = None
    /\ rows = <<>>
    /\ origin = <<>>
    /\ result = <<>>
    /\ warned = FALSE
    /\ MonthsIdle
    /\ DayIdle
    /\ BackfillIdle
    /\ RequestIdle
    /\ GetDataIdle
    /\ BlsIdle

Next ==
    \/ FetchHtml
    \/ FetchHtmlRaises
    \/ FindDayDivs
    \/ DayNoDateSpan
    \/ DayBadDate
    \/ DayNoContent
    \/ DayEnter
    \/ ElemNotTag
    \/ ElemHeadingDiv
    \/ ElemParagraph
    \/ ElemSkip
    \/ ElemCategoryUl
    \/ DayDone
    \/ ParseReturn
    \/ GetMonthWarns
    \/ GetMonthReturns

Spec == Init /\ [][Next]_vars

\* A call of get_months on a range of the months of RangeMonths, in either
\* order.
InitMonths ==
    /\ ParseIdle
    /\ m_pc = "get_months"
    /\ \E s \in RangeMonths : \E e \in RangeMonths :
          m_args = [start_year |-> s[1], start_month |-> s[2],
                    end_year |-> e[1], end_month |-> e[2]]
    /\ ym = <<0, 0>>
    /\ dfs = <<>>
    /\ m_calls = <<>>
    /\ m_warnings = <<>>
    /\ m_df = EmptyFrame
    /\ DayIdle
    /\ BackfillIdle
    /\ RequestIdle
    /\ GetDataIdle
    /\ BlsIdle

NextMonths ==
    \/ GetMonthsEnter
    \/ MonthFetched
    \/ MonthRaises
    \/ MonthsReturnEmpty
    \/ MonthsSortRaises
    \/ MonthsReturn

SpecMonths == InitMonths /\ [][NextMonths]_vars

\* The loop's steps are taken one after another until get_months returns or
\* raises: nothing in it waits.
SpecMonthsFair == SpecMonths /\ WF_vars(NextMonths)

InitDay ==
    /\ ParseIdle
    /\ MonthsIdle
    /\ d_pc = "get_day"
    /\ d_arg \in DayArgs
    /\ d_resp = TransportError
    /\ d_out = NoOutcome
    /\ BackfillIdle
    /\ RequestIdle
    /\ GetDataIdle
    /\ BlsIdle

NextDay ==
    \/ GetDaySendRaises
    \/ GetDayResponds
    \/ GetDay404
    \/ GetDayStatusRaises
    \/ GetDayBodyRaises
    \/ GetDayReturns

SpecDay == InitDay /\ [][NextDay]_vars

\* The first run on a path where no file is.
InitBackfill ==
    /\ ParseIdle
    /\ MonthsIdle
    /\ DayIdle
    /\ csv = NoFile
    /\ csv_start = NoFile
    /\ b_pc = "backfill"
    /\ \E s \in BackfillDates : \E e \in BackfillDates :
          b_args = [start_date |-> s, end_date |-> e]
    /\ to_fetch = <<>>
    /\ b_i = 0
    /\ write_header = FALSE
    /\ missing_count = 0
    /\ b_requests = <<>>
    /\ b_df = EmptyFrame
    /\ b_runs = 1
    /\ RequestIdle
    /\ GetDataIdle
    /\ BlsIdle

NextBackfill ==
    \/ BackfillUpToDate
    \/ BackfillPlans
    \/ DayIsMissing
    \/ DayIsEmpty
    \/ DayIsSaved
    \/ DayRaises
    \/ Interrupted
    \/ FetchDone
    \/ LoadRaises
    \/ LoadReturns
    \/ NextRun

SpecBackfill == InitBackfill /\ [][NextBackfill]_vars

\* A call of _make_request.
InitRequest ==
    /\ ParseIdle
    /\ MonthsIdle
    /\ DayIdle
    /\ BackfillIdle
    /\ r_pc = "_make_request"
    /\ \E method \in Methods : \E data \in DataArgs :
          r_args = [method |-> method, data |-> data]
    /\ attempt = 0
    /\ r_sent = <<>>
    /\ r_slept = 0
    /\ r_result = "None"
    /\ GetDataIdle
    /\ BlsIdle

NextRequest ==
    \/ RequestEnter
    \/ AttemptSucceeds
    \/ AttemptFailsRetry
    \/ AttemptFailsLast

SpecRequest == InitRequest /\ [][NextRequest]_vars

\* A call of BLSAPI.get_data.
InitGetData ==
    /\ ParseIdle
    /\ MonthsIdle
    /\ DayIdle
    /\ BackfillIdle
    /\ RequestIdle
    /\ gd_pc = "get_data"
    /\ \E n \in SeriesLens : \E years \in YearLists : \E api_key \in ApiKeys :
          gd_args = [series_ids |-> SeriesIds(n), years |-> years,
                     api_key |-> api_key]
    /\ gd_y = 0
    /\ gd_chunk = [year_chunk |-> <<>>, start_year |-> 0, end_year |-> 0]
    /\ gd_s = 0
    /\ gd_sent = <<>>
    /\ gd_df = <<>>
    /\ BlsIdle

NextGetData ==
    \/ GetDataEnter
    \/ YearChunk
    \/ RequestSucceeded
    \/ RequestApiError
    \/ RequestRaises
    \/ SeriesDone
    \/ GetDataReturns

SpecGetData == InitGetData /\ [][NextGetData]_vars

\* A call of get_bls_data.
InitBls ==
    /\ ParseIdle
    /\ MonthsIdle
    /\ DayIdle
    /\ BackfillIdle
    /\ RequestIdle
    /\ GetDataIdle
    /\ gb_pc = "get_bls_data"
    /\ \E n \in SeriesLens : \E years \in YearLists :
          gb_args = [series_ids |-> SeriesIds(n), years |-> years]
    /\ gb_y = 0
    /\ gb_s = 0
    /\ gb_sent = <<>>
    /\ gb_df = <<>>

NextBls ==
    \/ BlsEnter
    \/ BlsRequestAnswered
    \/ BlsRequestRaises
    \/ BlsSeriesDone
    \/ BlsReturns

SpecBls == InitBls /\ [][NextBls]_vars

---------------------------------------------------------------------------
(* The vocabulary of the properties                                        *)

\* A heading element of a day's content: a content-heading div, or a
\* paragraph that holds a bold element.
ClaimIsHeading(e) ==
    \/ e.tag = "div" /\ "current-events-content-heading" \in e.class
    \/ e.tag = "p" /\ \E i \in 1..Len(Descendants(e)) : Descendants(e)[i].tag = "b"

\* The index among kids of the nearest heading before position e; 0 if none.
NearestHeading(kids, e) ==
    LET hs == {h \in 1..(e - 1) : ClaimIsHeading(kids[h])}
    IN  IF hs = {} THEN 0 ELSE SetMax(hs)

\* Where record i comes from: the children of its day block's content, its
\* list, and its entry.
RowKids(i)  == Contents(day_divs[origin[i].day])[1].kids
RowList(i)  == RowKids(i)[origin[i].elem]
RowEntry(i) == FindAllDirect(RowList(i), "li")[origin[i].entry]

\* The top-level blocks of the page with a class, in document order.
BlocksOfClass(soup, cls) ==
    SelectSeq(Blocks(soup), LAMBDA b : b.tag = "div" /\ cls \in b.class)

\* _parse_html has selected its day blocks.
Selected == pc \in {"day", "element", "parsed", "done"}

\* The paths (child indices from n down) of the nodes of the tree of n.
RECURSIVE PathsOf(_)
PathsOf(n) ==
    {<<>>} \cup
    UNION { {<<i>> \o q : q \in PathsOf(n.kids[i])} : i \in 1..Len(n.kids) }

RECURSIVE NodeAt(_, _)
NodeAt(n, path) ==
    IF path = <<>> THEN n ELSE NodeAt(n.kids[Head(path)], Tail(path))

IsProperPrefix(q, path) == Len(q) < Len(path) /\ SubSeq(path, 1, Len(q)) = q

\* Document order of two different paths.
RECURSIVE Before(_, _)
Before(p1, p2) ==
    IF p1 = <<>> THEN p2 # <<>>
    ELSE IF p2 = <<>> THEN FALSE
    ELSE IF Head(p1) # Head(p2) THEN Head(p1) < Head(p2)
    ELSE Before(Tail(p1), Tail(p2))

RECURSIVE InDocumentOrder(_)
InDocumentOrder(S) ==
    IF S = {} THEN <<>>
    ELSE LET first == CHOOSE p1 \in S : \A p2 \in S \ {p1} : Before(p1, p2)
         IN  <<first>> \o InDocumentOrder(S \ {first})

\* Whether the tree of n holds a list below n.
ClaimHasNestedList(n) ==
    \E q \in PathsOf(n) : q # <<>> /\ NodeAt(n, q).tag = "ul"

\* The leaves of an entry: the entry itself when it holds no nested list;
\* otherwise the list items inside a nested list, at any depth, that hold no
\* further list.  In document order.
ClaimLeaves(entry) ==
    IF ~ClaimHasNestedList(entry) THEN <<entry>>
    ELSE LET ps == { q \in PathsOf(entry) :
                       /\ NodeAt(entry, q).tag = "li"
                       /\ \E u \in PathsOf(entry) :
                             /\ u # <<>> /\ IsProperPrefix(u, q)
                             /\ NodeAt(entry, u).tag = "ul"
                       /\ ~ClaimHasNestedList(NodeAt(entry, q)) }
             ord == InDocumentOrder(ps)
         IN  [j \in 1..Len(ord) |-> NodeAt(entry, ord[j])]

\* The links of a node, at any depth, in document order.
ClaimLinks(n) ==
    LET ord == InDocumentOrder({q \in PathsOf(n) : NodeAt(n, q).tag = "a"})
    IN  [j \in 1..Len(ord) |-> NodeAt(n, ord[j])]

\* The indices of the records of entry k of the list at position e of the
\* content of day block d.
RecordsOf(d, e, k) ==
    {i \in 1..Len(rows) :
        origin[i].day = d /\ origin[i].elem = e /\ origin[i].entry = k}

\* The lists the parser files: (d, e) such that day block d is dated and has
\* content, and child e of the content is a list whose nearest preceding
\* heading has a text.
WalkedDays ==
    { d \in 1..Len(day_divs) :
        /\ DateSpans(day_divs[d]) # <<>>
        /\ DateIsValid(DateText(day_divs[d]))
        /\ Contents(day_divs[d]) # <<>> }

FiledLists ==
    UNION { { <<d, e>> : e \in
                { e \in 1..Len(Contents(day_divs[d])[1].kids) :
                    LET kids == Contents(day_divs[d])[1].kids
                    IN  /\ kids[e].tag = "ul"
                        /\ NearestHeading(kids, e) # 0
                        /\ GetText(kids[NearestHeading(kids, e)], <<>>) # <<>> } } :
            d \in WalkedDays }

ListAt(de) == Contents(day_divs[de[1]])[1].kids[de[2]]

\* The leaf record i comes from.
RowLeaf(i) == ClaimLeaves(RowEntry(i))[origin[i].leaf]

\* A link counts for wiki_links: an internal /wiki/ href outside the five
\* namespaces, no external flag, a title.
ClaimNamespaces == {"Portal:", "Help:", "Special:", "Wikipedia:", "Talk:"}

ClaimIsArticleLink(a) ==
    /\ Len(a.href) >= 1 /\ a.href[1] = "/wiki/"
    /\ ~ (Len(a.href) >= 2 /\ a.href[2] \in ClaimNamespaces)
    /\ "external" \notin a.class
    /\ a.title # <<>>

\* The title of the first immediate child of the entry that passes Test, as
\* the parser reports a title (trimmed); the empty string if there is none.
ClaimFirstTitle(entry, Test(_)) ==
    LET is == {c \in 1..Len(entry.kids) : Test(entry.kids[c])}
    IN  IF is = {} THEN <<>> ELSE Strip(entry.kids[SetMin(is)].title)

ClaimIsInternalLink(a) ==
    /\ a.tag = "a"
    /\ Len(a.href) >= 1 /\ a.href[1] = "/wiki/"
    /\ "external" \notin a.class

ClaimIsTitledInternalLink(a) == ClaimIsInternalLink(a) /\ a.title # <<>>

\* A day block (a div of either container class) without a date marker, or
\* with one that is no date.
IsDayBlock(b) ==
    b.tag = "div" /\ ("current-events" \in b.class \/ "current-events-main" \in b.class)

ClaimIsUndated(b) ==
    DateSpans(b) = <<>> \/ ~DateIsValid(DateText(b))

\* The sequence without its element at position b.
Without(seq, b) == SubSeq(seq, 1, b - 1) \o SubSeq(seq, b + 1, Len(seq))

\* No exception leaves _parse_html: one is raised only by _fetch_html,
\* before the parse begins.
NoParseError == pc = "raised" => day_divs = <<>> /\ day_i = 0

---------------------------------------------------------------------------
(* Properties                                                              *)

\* C1: when the parse is over, every record carries as category the text of the nearest heading
\* element (a content-heading div or a paragraph containing bold) that
\* precedes its list among the children of its own day block's content; so
\* a list with no preceding heading in its own day block yields no record,
\* whatever an earlier day block held.
C1_CategoryIsNearestHeading ==
    pc = "parsed" =>
      \A i \in 1..Len(rows) :
        /\ RowList(i).tag = "ul"
        /\ NearestHeading(RowKids(i), origin[i].elem) # 0
        /\ rows[i].category =
             GetText(RowKids(i)[NearestHeading(RowKids(i), origin[i].elem)], <<>>)

\* C1, witness: the parse is over; a later day block was walked whose list
\* has no heading before it, an earlier block yielded records, and every
\* record comes from a block before that one.
C1_Witness ==
    /\ pc = "parsed"
    /\ rows # <<>>
    /\ \E d \in 2..Len(day_divs) :
        /\ DateSpans(day_divs[d]) # <<>>
        /\ DateIsValid(DateText(day_divs[d]))
        /\ Contents(day_divs[d]) # <<>>
        /\ \E e \in 1..Len(Contents(day_divs[d])[1].kids) :
              /\ Contents(day_divs[d])[1].kids[e].tag = "ul"
              /\ UlKept(Contents(day_divs[d])[1].kids[e]) # <<>>
              /\ NearestHeading(Contents(day_divs[d])[1].kids, e) = 0
        /\ \A i \in 1..Len(rows) : origin[i].day < d

\* C6: the step over a paragraph that holds no bold element changes neither
\* the category cursor nor the records.
C6_PlainParagraphIsInert ==
    [][ ( /\ pc = "element" /\ elem_i <= Len(children)
          /\ children[elem_i].tag = "p"
          /\ ~ClaimIsHeading(children[elem_i]) )
        => ( /\ current_category' = current_category
             /\ rows' = rows
             /\ elem_i' = elem_i + 1 /\ pc' = "element" ) ]_vars

\* C6, witness: a list right after a paragraph without bold has been filed
\* under the heading that stands before the paragraph.
C6_Witness ==
    \E i \in 1..Len(rows) :
        /\ origin[i].elem >= 3
        /\ RowKids(i)[origin[i].elem - 1].tag = "p"
        /\ ~ClaimIsHeading(RowKids(i)[origin[i].elem - 1])
        /\ ClaimIsHeading(RowKids(i)[origin[i].elem - 2])
        /\ rows[i].category = GetText(RowKids(i)[origin[i].elem - 2], <<>>)

\* C7: the day blocks parsed are the blocks of the primary class when the
\* page has one, and all the blocks of the legacy class when it has none.
C7_PrimaryThenLegacy ==
    Selected =>
        /\ day_divs =
             IF BlocksOfClass(html, "current-events") # <<>>
             THEN BlocksOfClass(html, "current-events")
             ELSE BlocksOfClass(html, "current-events-main")
        /\ \A i \in 1..Len(rows) : origin[i].day \in 1..Len(day_divs)
        /\ pc \in {"parsed", "done"} => day_i = Len(day_divs) + 1

\* C7, witness: the parse of a page of both formats is over: its legacy
\* block, dated and holding a list under a heading, was left out.
C7_Witness ==
    /\ pc = "parsed"
    /\ BlocksOfClass(html, "current-events") # <<>>
    /\ \E b \in 1..Len(BlocksOfClass(html, "current-events-main")) :
          LET blk == BlocksOfClass(html, "current-events-main")[b]
          IN  /\ DateSpans(blk) # <<>>
              /\ DateIsValid(DateText(blk))
              /\ Contents(blk) # <<>>
    /\ \A d \in 1..Len(day_divs) : "current-events" \in day_divs[d].class

\* C2: when the parse is over, the records of each direct entry of each
\* filed list are, in order, one per leaf of the entry whose description
\* passes the length filter of C5 -- the leaves being the entry itself when
\* it holds no nested list, and otherwise the list items below it, at any
\* depth, that hold no further list -- and they share one sub_topic and one
\* category.
C2_OneRecordPerLeaf ==
    pc = "parsed" =>
      \A de \in FiledLists :
        \A k \in 1..Len(FindAllDirect(ListAt(de), "li")) :
          LET entry  == FindAllDirect(ListAt(de), "li")[k]
              leaves == ClaimLeaves(entry)
              long   == {j \in 1..Len(leaves) :
                           StrLen(GetText(leaves[j], <<" ">>)) >= MinDescriptionLen}
              recs   == RecordsOf(de[1], de[2], k)
          IN  /\ {origin[i].leaf : i \in recs} = long
              /\ Cardinality(recs) = Cardinality(long)
              /\ \A i \in recs :
                    rows[i].description =
                        GetText(leaves[origin[i].leaf], <<" ">>)
              /\ \A i1, i2 \in recs :
                    /\ rows[i1].sub_topic = rows[i2].sub_topic
                    /\ rows[i1].category = rows[i2].category
                    /\ (i1 < i2) = (origin[i1].leaf < origin[i2].leaf)

\* C2, witness: an entry with a nested list inside a nested list has yielded
\* at least two records, one of them for a leaf of the inner list.
C2_Witness ==
    /\ pc = "parsed"
    /\ \E i1, i2 \in 1..Len(rows) :
          /\ i1 < i2
          /\ origin[i1].entry = origin[i2].entry
          /\ rows[i1].sub_topic # <<>>
          /\ ClaimHasNestedList(RowEntry(i1))
          /\ \E q \in PathsOf(RowEntry(i1)) :
                /\ Len(q) >= 4
                /\ NodeAt(RowEntry(i1), q).tag = "li"
                /\ rows[i1].description = GetText(NodeAt(RowEntry(i1), q), <<" ">>)

\* C3: a record whose entry holds no nested list (the entry is the leaf) has
\* the empty sub_topic, whatever links the entry holds.
C3_LeafEntryHasEmptySubTopic ==
    \A i \in 1..Len(rows) :
        ~ClaimHasNestedList(RowEntry(i)) => rows[i].sub_topic = <<>>

C5_DescriptionAtLeastTen ==
    pc = "parsed" =>
      /\ \A i \in 1..Len(rows) : StrLen(rows[i].description) >= 10
      /\ \A de \in FiledLists :
           \A k \in 1..Len(FindAllDirect(ListAt(de), "li")) :
             LET leaves == ClaimLeaves(FindAllDirect(ListAt(de), "li")[k])
                 recs   == RecordsOf(de[1], de[2], k)
             IN  \A j \in 1..Len(leaves) :
                   LET n == StrLen(GetText(leaves[j], <<" ">>))
                       c == Cardinality({i \in recs : origin[i].leaf = j})
                   IN  /\ n <= 9 => c = 0
                       /\ n = 10 => c = 1

\* C5, witness: a record whose description has exactly 10 characters, made
\* of two strings of the leaf joined by a space.
C5_Witness ==
    \E i \in 1..Len(rows) :
        /\ StrLen(rows[i].description) = 10
        /\ Len(StrippedStrings(RowLeaf(i))) = 2

\* C8, as claimed: a day block without a valid date marker yields no record
\* and no error, and the records of the page are those of the page without
\* that block.
C8_UndatedBlockAsIfAbsent ==
    /\ \A i \in 1..Len(rows) : ~ClaimIsUndated(day_divs[origin[i].day])
    /\ NoParseError
    /\ pc = "parsed" =>
         \A b \in 1..Len(Blocks(html)) :
            (IsDayBlock(Blocks(html)[b]) /\ ClaimIsUndated(Blocks(html)[b]))
            => rows = ParseHtml(Soup(Without(Blocks(html), b)), year, month)

\* C8, amended: a day block without a valid date marker yields no record and
\* no error, and the records of the page are those of the page without that
\* block, provided the block is not of the primary class or another block of
\* the page is.
C8_UndatedBlockIsSkipped ==
    /\ \A i \in 1..Len(rows) : ~ClaimIsUndated(day_divs[origin[i].day])
    /\ NoParseError
    /\ pc = "parsed" =>
         \A b \in 1..Len(Blocks(html)) :
            ( /\ IsDayBlock(Blocks(html)[b])
              /\ ClaimIsUndated(Blocks(html)[b])
              /\ \/ "current-events" \notin Blocks(html)[b].class
                 \/ \E b2 \in 1..Len(Blocks(html)) :
                       b2 # b /\ "current-events" \in Blocks(html)[b2].class )
            => rows = ParseHtml(Soup(Without(Blocks(html), b)), year, month)

\* C8, witness: the parse is over; a block with an invalid date, holding a
\* list under a heading, stands before a block that yielded records.
C8_Witness ==
    /\ pc = "parsed"
    /\ \E i \in 1..Len(rows) :
          /\ origin[i].day >= 2
          /\ DateSpans(day_divs[1]) # <<>>
          /\ ~DateIsValid(DateText(day_divs[1]))
          /\ Contents(day_divs[1]) # <<>>
          /\ Len(Contents(day_divs[1])[1].kids) >= 2

\* C9: on a page with no block of either container class _parse_html ends
\* with no record and without raising, and get_month then has printed its
\* warning and returns an empty table.
C9_NoDayBlockGivesEmptyTable ==
    ( /\ BlocksOfClass(html, "current-events") = <<>>
      /\ BlocksOfClass(html, "current-events-main") = <<>> )
    => /\ rows = <<>>
       /\ NoParseError
       /\ Selected => day_divs = <<>>
       /\ pc = "done" => warned /\ result = <<>>

\* C9, witness: get_month has returned on a page whose only block, dated and
\* holding a list under a heading, is of neither class.
C9_Witness ==
    /\ pc = "done"
    /\ warned /\ result = <<>>
    /\ Blocks(html) # <<>>
    /\ \A b \in 1..Len(Blocks(html)) :
          /\ ~IsDayBlock(Blocks(html)[b])
          /\ ~ClaimIsUndated(Blocks(html)[b])
          /\ Contents(Blocks(html)[b]) # <<>>

\* C10: when the parse is over, the wiki_links of a record are, joined by "|" in document order, the
\* (trimmed) titles of the links of its leaf, at any depth, that have a
\* /wiki/ href outside the Portal:, Help:, Special:, Wikipedia: and Talk:
\* namespaces, no external flag and a non-empty title.
C10_WikiLinksAreArticleTitles ==
    pc = "parsed" =>
      \A i \in 1..Len(rows) :
        LET links == SelectSeq(ClaimLinks(RowLeaf(i)), ClaimIsArticleLink)
        IN  rows[i].wiki_links =
                Join(<<"|">>, [j \in 1..Len(links) |-> Strip(links[j].title)])

\* C10, witness: a record of a leaf with a namespace link and an article
\* link: only the article's title is in wiki_links.
C10_Witness ==
    \E i \in 1..Len(rows) :
        /\ rows[i].wiki_links = <<"France">>
        /\ \E j \in 1..Len(ClaimLinks(RowLeaf(i))) :
              ClaimLinks(RowLeaf(i))[j].href = <<"/wiki/", "Portal:", "Current_events">>

\* The display text of a link as a citation names it: its text, the
\* enclosing parentheses trimmed.
ClaimIsFlagged(a) == "external" \in a.class

ClaimDisplayName(a) == StripChars(GetText(a, <<" ">>), {"(", ")"})

\* C11: when the parse is over, the sources of a record are, joined by "|"
\* in document order, the non-empty display names of the links of its leaf
\* that carry the external flag, whatever their href; and its wiki_links
\* are drawn from the unflagged links only, so a flagged link gives no title
\* even with a /wiki/ href and an unflagged one gives no source even with
\* an http href.
C11_ExternalByFlagAlone ==
    pc = "parsed" =>
      \A i \in 1..Len(rows) :
        LET links   == ClaimLinks(RowLeaf(i))
            flagged == SelectSeq(links, ClaimIsFlagged)
            plain   == SelectSeq(links, LAMBDA a : ~ClaimIsFlagged(a))
            names   == SelectSeq([j \in 1..Len(flagged) |->
                                     ClaimDisplayName(flagged[j])],
                                 LAMBDA n : n # <<>>)
            titles  == SelectSeq(plain, ClaimIsArticleLink)
        IN  /\ rows[i].sources = Join(<<"|">>, names)
            /\ rows[i].wiki_links =
                  Join(<<"|">>, [j \in 1..Len(titles) |-> Strip(titles[j].title)])

\* C11, witness: a record of a leaf with a flagged link to /wiki/Reuters and
\* an unflagged link to https://bbc.co.uk: the first alone is a source and
\* neither is a wiki link.
C11_Witness ==
    /\ pc = "parsed"
    /\ \E i \in 1..Len(rows) :
          /\ rows[i].sources = <<"Reuters">>
          /\ rows[i].wiki_links = <<>>
          /\ \E j, k \in 1..Len(ClaimLinks(RowLeaf(i))) :
                /\ ClaimIsFlagged(ClaimLinks(RowLeaf(i))[j])
                /\ ClaimLinks(RowLeaf(i))[j].href = <<"/wiki/", "Reuters">>
                /\ ~ClaimIsFlagged(ClaimLinks(RowLeaf(i))[k])
                /\ ClaimLinks(RowLeaf(i))[k].href = <<"https://", "bbc.co.uk">>

\* The months of the inclusive range of the call, in chronological order.
MonthIndex(t) == t[1] * 12 + t[2]

MonthOfIndex(k) == <<(k - 1) \div 12, ((k - 1) % 12) + 1>>

ClaimRange ==
    LET first == MonthIndex(<<m_args.start_year, m_args.start_month>>)
        last  == MonthIndex(<<m_args.end_year, m_args.end_month>>)
    IN  IF last < first THEN <<>>
        ELSE [i \in 1..(last - first + 1) |-> MonthOfIndex(first + i - 1)]

\* The months get_month was called for, in the order of the calls.
CalledMonths == [i \in 1..Len(m_calls) |-> m_calls[i].ym]

\* get_months is over: it returned, or an exception left it.
MonthsOver == m_pc \in {"returned", "raised"}

\* The events of the months whose call returned, in the order of the calls.
EventsFetched ==
    Flatten([i \in 1..Len(m_calls) |->
                IF m_calls[i].raised THEN <<>> ELSE m_calls[i].frame.rows])

\* How many times a row occurs in a list of rows.
Occurrences(r, rs) == Cardinality({i \in 1..Len(rs) : rs[i] = r})

\* The two lists hold the same rows, each as many times.
SameRows(a, b) ==
    /\ Len(a) = Len(b)
    /\ \A i \in 1..Len(a) : Occurrences(a[i], a) = Occurrences(a[i], b)

\* The rows ascend by date and, within a date, by category.
ClaimIsSorted(rs) ==
    \A i \in 1..(Len(rs) - 1) :
        \/ DateKey(rs[i].date) < DateKey(rs[i + 1].date)
        \/ /\ DateKey(rs[i].date) = DateKey(rs[i + 1].date)
           /\ CategoryKey(rs[i].category) <= CategoryKey(rs[i + 1].category)

C16_RangeState ==
    /\ Len(m_calls) <= Len(ClaimRange)
    /\ CalledMonths = SubSeq(ClaimRange, 1, Len(m_calls))
    /\ MonthsOver => CalledMonths = ClaimRange
    /\ (MonthsOver /\ ClaimRange = <<>>) =>
          m_pc = "returned" /\ m_df.rows = <<>> /\ m_calls = <<>>

C16_CallsEveryMonthOnce == [] C16_RangeState /\ <> MonthsOver

\* C16, witness: a range over the turn of the year is over, December and
\* then January called for.
C16_Witness ==
    /\ MonthsOver
    /\ Len(m_calls) = 3
    /\ m_calls[2].ym = <<2023, 12>>
    /\ m_calls[3].ym = <<2024, 1>>

\* C17: get_months never raises, whatever each month's outcome; when no
\* month of the range yields an event the table it returns is empty.
C17_ReturnsTableForEveryOutcome ==
    /\ m_pc # "raised"
    /\ (m_pc = "returned" /\ EventsFetched = <<>>) => m_df.rows = <<>>

\* get_day is over: it returned, or an exception left it.
DayOver == d_pc \in {"returned", "raised"}

\* The fetch failed: session.get raised, or the response carries a status
\* other than success (2xx) and other than 404.
ClaimIsSuccess(status) == 200 <= status /\ status <= 299

ClaimFetchFailed ==
    \/ d_resp.raises
    \/ ~d_resp.raises /\ d_resp.status # 404 /\ ~ClaimIsSuccess(d_resp.status)

\* The fetch failed with an error: session.get raised, or the response
\* carries a client or server error status (400 to 599) other than 404.
ClaimFetchErrored ==
    \/ d_resp.raises
    \/ ~d_resp.raises /\ d_resp.status # 404
                      /\ d_resp.status >= 400 /\ d_resp.status <= 599

ClaimIs404 == ~d_resp.raises /\ d_resp.status = 404

ClaimIsValidPayload ==
    /\ ~d_resp.raises /\ d_resp.status = 200
    /\ d_resp.body.json /\ d_resp.body.items
    /\ Len(d_resp.body.articles) >= 100

\* C14: once get_day is over on a valid payload, it returned
\* is_missing=False and a table of exactly 100 rows, of ranks 1 to 100, each
\* carrying the day asked for.
C14_HundredRowsRankedFromOne ==
    (DayOver /\ ClaimIsValidPayload) =>
      /\ d_pc = "returned"
      /\ ~d_out.is_missing
      /\ Len(d_out.df.rows) = 100
      /\ \A i \in 1..Len(d_out.df.rows) :
            /\ d_out.df.rows[i].rank = i
            /\ d_out.df.rows[i].date = ToDatetime(d_arg)

\* C14, witness: get_day returned on a payload of more than 100 articles.
C14_Witness ==
    /\ d_pc = "returned"
    /\ ClaimIsValidPayload
    /\ Len(d_resp.body.articles) > 100
    /\ Len(d_out.df.rows) = 100

\* The days from a to b, both included, in ascending order: the order of
\* the calendar, year, then month, then day.
ClaimDayKey(c) == c.year * 10000 + c.month * 100 + c.day

ClaimDaysBetween(a, b) ==
    LET S == {c \in CalendarDays :
                 ClaimDayKey(a) <= ClaimDayKey(c) /\ ClaimDayKey(c) <= ClaimDayKey(b)}
    IN  [p \in 1..Cardinality(S) |->
            CHOOSE c \in S :
                Cardinality({e \in S : ClaimDayKey(e) <= ClaimDayKey(c)}) = p]

\* The text of a day in the date column of the CSV.
ClaimDateText(c) == <<"2024", "-", TwoDigits[c.month], "-", TwoDigits[c.day]>>

\* The file holds a row of the day.
ClaimHasRow(file, c) ==
    \E i \in 1..Len(file.lines) :
        file.lines[i].kind = "row" /\ file.lines[i].date = ClaimDateText(c)

\* The days of the run's range without a row in the file as the run found
\* it, in ascending order.
ClaimRemaining ==
    SelectSeq(ClaimDaysBetween(b_args.start_date, b_args.end_date),
              LAMBDA c : ~ClaimHasRow(csv_start, c))

\* The run went through all its days.
RunFetchedAll == b_pc \in {"load", "returned", "raised"}

\* C15: the days a run has called get_day for are at every moment the
\* first of the days of its inclusive range that had no row in the CSV when
\* it started, each once and in ascending order, and all of them once its
\* loop is over; so a run on a range whose days are all saved makes no
\* request.
C15_FetchesOnlyUnsavedDates ==
    b_pc # "idle" =>
      /\ Len(b_requests) <= Len(ClaimRemaining)
      /\ b_requests = SubSeq(ClaimRemaining, 1, Len(b_requests))
      /\ RunFetchedAll => b_requests = ClaimRemaining

\* C15, witness: a later run, on a range of which an earlier run saved a
\* day and not another, is over having requested only the day not saved.
C15_Witness ==
    /\ b_runs > 1
    /\ RunFetchedAll
    /\ b_requests # <<>>
    /\ \E k \in 1..Len(ClaimDaysBetween(b_args.start_date, b_args.end_date)) :
          ClaimHasRow(csv_start,
                      ClaimDaysBetween(b_args.start_date, b_args.end_date)[k])
    /\ Len(b_requests) <
          Len(ClaimDaysBetween(b_args.start_date, b_args.end_date))

\* C18: whatever runs were made on the path, completed or interrupted, the
\* CSV, when there is one, begins with the header line, holds no other
\* header line, and holds no row of a date twice: the rows of a date are
\* those of one table, next to one another.
C18_NoDateTwiceOneHeader ==
    /\ ~csv.exists => csv.lines = <<>>
    /\ csv.exists =>
          /\ Len(csv.lines) >= 1
          /\ csv.lines[1].kind = "header"
          /\ \A i \in 2..Len(csv.lines) : csv.lines[i].kind = "row"
          /\ \A i, j \in 2..Len(csv.lines) :
                (i < j /\ csv.lines[i].date = csv.lines[j].date) =>
                  /\ csv.lines[i].rank # csv.lines[j].rank
                  /\ \A k \in i..j : csv.lines[k].date = csv.lines[i].date

\* C18, witness: a run that follows an interrupted or completed run which
\* saved a day has appended another day to the file.
C18_Witness ==
    /\ b_runs > 1
    /\ csv_start.exists
    /\ Len(csv.lines) > Len(csv_start.lines)
    /\ \E i, j \in 2..Len(csv.lines) : csv.lines[i].date # csv.lines[j].date

\* C19: a run of backfill never ends on an exception of its own; when its
\* loop is over it returns the table loaded from save_path, also when there
\* was no file before the run and no day of the range gave a row.
C19_ReturnsLoadedTable ==
    /\ b_pc # "raised"
    /\ b_pc = "returned" =>
          Len(b_df.rows) = Cardinality({i \in 1..Len(csv.lines) :
                                           csv.lines[i].kind = "row"})

\* The attempts made so far that failed.
ClaimFailed(i) == r_sent[i].failure # "none"

\* C20: a call of _make_request sends at most three requests; no request
\* follows one that succeeded, and the call returns the JSON of that one;
\* a request follows a failed one only when fewer than three were made; and
\* the call raises exactly when three attempts were made and all failed.
C20_AtMostThreeAttempts ==
    /\ Len(r_sent) <= 3
    /\ \A i \in 1..(Len(r_sent) - 1) : ClaimFailed(i)
    /\ r_pc = "returned" <=>
          (Len(r_sent) >= 1 /\ ~ClaimFailed(Len(r_sent)))
    /\ r_pc = "returned" => r_result \in JsonBodies
    /\ r_pc = "raised" <=>
          (Len(r_sent) = 3 /\ \A i \in 1..3 : ClaimFailed(i))
    /\ r_pc = "try" => Len(r_sent) < 3

\* C20, witness: the call returned on its third attempt, after two failed.
C20_Witness ==
    /\ r_pc = "returned"
    /\ Len(r_sent) = 3
    /\ ClaimFailed(1) /\ ClaimFailed(2)

\* The years from the startyear to the endyear of a request, both counted.
ClaimYearsCovered(data) == YearOfStr(data.endyear) - YearOfStr(data.startyear) + 1

\* C21: every request get_data sends carries at most 50 series ids, and the
\* years from its startyear to its endyear are at most 20.
C21_RequestsWithinLimits ==
    \A k \in 1..Len(gd_sent) :
        /\ Len(gd_sent[k].data.seriesid) <= 50
        /\ ClaimYearsCovered(gd_sent[k].data) <= 20

\* The chunks of years of a call: the places of the list where one begins.
ClaimYearChunks ==
    {c \in 0..(Len(gb_args.years) - 1) : c % 20 = 0}

\* The requests sent for the chunk of years at c that carry the series id.
ClaimRequestsCarrying(c, id) ==
    {k \in 1..Len(gb_sent) :
        /\ gb_sent[k].y = c
        /\ \E p \in 1..Len(gb_sent[k].data.seriesid) :
              gb_sent[k].data.seriesid[p] = id}

\* The chunks of years whose startyear..endyear holds the year.
ClaimChunksHolding(yr) ==
    {c \in ClaimYearChunks :
        /\ BlsStartYear(gb_args.years, c) <= yr
        /\ yr <= BlsEndYear(gb_args.years, c)}

\* C22: when get_bls_data has returned, each series id of the list was sent
\* in exactly one request of each chunk of years, and each year of the list
\* lies within startyear..endyear of exactly one chunk of years.
C22_NoInputLost ==
    gb_pc = "returned" =>
        /\ \A c \in ClaimYearChunks : \A i \in 1..Len(gb_args.series_ids) :
              Cardinality(ClaimRequestsCarrying(c, gb_args.series_ids[i])) = 1
        /\ \A j \in 1..Len(gb_args.years) :
              Cardinality(ClaimChunksHolding(gb_args.years[j])) = 1

====
